---- MODULE Spec2Model ----
(***************************************************************************)
(* Model of the 2D geometry and line-of-sight code of nostd_structs:       *)
(*   structs/algebra/linear_equation.rs  LinearEquation                    *)
(*   structs/geom/point_2d.rs            Point2D                           *)
(*   structs/geom/line_2d.rs             Line2D (overlap, subtract,        *)
(*                                       closest_point_on_segment)         *)
(*   structs/geom/shape_2d.rs            Shape2D (projection, ray casting, *)
(*                                       convex hull of one or two shapes) *)
(*   structs/geom/polygon_2d.rs          Polygon2D (center, edges, resize, *)
(*                                       ==)                               *)
(*   structs/geom/triangle_2d.rs         Triangle2D (edges,                *)
(*                                       point_in_shape)                   *)
(*   structs/geom/misc.rs                orientation, convex_hull          *)
(*   algos/slice/sort.rs                 insertion_sort_by                 *)
(*   algos/slice/rotating.rs             rotate_slice                      *)
(*   structs/game/los.rs                 LineOfSight                       *)
(*   structs/game/fov.rs                 FieldOfView                       *)
(*   structs/lru_map.rs                  LruMap                            *)
(*                                                                         *)
(* Numbers.  The code computes in f32.  A value is modelled as a pair      *)
(* <<n, d>>:  d > 0 a finite non-zero rational n/d in lowest terms,        *)
(* <<0, 1>> is +0.0, <<0, -1>> is -0.0, <<1, 0>> is +inf, <<-1, 0>> is     *)
(* -inf and <<0, 0>> is NaN.  The operators F* follow IEEE-754 on these    *)
(* values except for rounding: they are exact.  The inputs drawn below     *)
(* (small integers and halves, planes of slope 1 and -1, axis aligned      *)
(* arrangements) are such that the f32 computation of the code is exact    *)
(* too, so both agree.  Where a usize can leave its range (the sum in      *)
(* rotate_slice, at a width of UsizeBits bits; the loop index of           *)
(* FieldOfView below zero) the build with overflow checks and the build    *)
(* without are both modelled.                                              *)
(***************************************************************************)
EXTENDS Integers, Sequences, FiniteSets, TLC

VARIABLES
    tracked_fields,     \* LineOfSight.tracked_fields: sequence of Line2D
    target_plane,       \* LineOfSight.target_plane: LinearEquation
    surface,            \* LineOfSight.surface: Polygon2D<4> (sequence of points)
    original_distance,  \* LineOfSight.original_distance
    call,               \* the last call on the tracker: its name, obstacle and result, the
                        \* fields before it, their number, and the pieces its pass produced
    panicked,           \* TRUE once a call has panicked (unwrap on None, push on a full ArrayVec)
    line_a,             \* Line2D algebra: receiver of the last overlap/subtract
    line_b,             \* Line2D algebra: argument of the last overlap/subtract
    line_out,           \* Line2D algebra: what overlap and subtract returned
    equation,           \* LinearEquation: receiver of orthogonal_at_point / project_onto
    arg_point,          \* the Point2D argument of the last call
    self_shape,         \* a shape's points: receiver of edges, resize, ==, convex_hull
    other_shape,        \* the points of the second shape of == and of the hull of two
    ret,                \* what the calls on equation, point, shape, slice and map returned
    data,               \* LruMap.data: sequence of entries (operation, key, value)
    next_operation,     \* LruMap.next_operation
    recency,            \* the indices of data, the least recently accessed entry first
    slice_args          \* the arguments of rotate_slice: source, frame, step, width

vars == <<tracked_fields, target_plane, surface, original_distance, call,
          panicked, line_a, line_b, line_out, equation, arg_point, self_shape,
          other_shape, ret, data, next_operation, recency, slice_args>>

los_vars == <<tracked_fields, target_plane, surface, original_distance, call, panicked>>

line_vars == <<line_a, line_b, line_out>>

fn_vars == <<equation, arg_point, self_shape, other_shape, ret>>

lru_vars == <<data, next_operation, recency>>

---------------------------------------------------------------------------
(* f32 arithmetic                                                          *)

NaN == <<0, 0>>

PInf == <<1, 0>>

NInf == <<-1, 0>>

PZero == <<0, 1>>

NZero == <<0, -1>>

Abs(n) == IF n < 0 THEN -n ELSE n

RECURSIVE Gcd(_, _)
Gcd(a, b) == IF b = 0 THEN a ELSE Gcd(b, a % b)

\* the finite non-zero value n/d (n # 0, d # 0) in lowest terms
Rat(n, d) ==
    LET g == Gcd(Abs(n), Abs(d))
        s == IF d < 0 THEN -1 ELSE 1
    IN  <<(s * n) \div g, (s * d) \div g>>

IsNaN(a) == a = NaN

IsInf(a) == a[2] = 0 /\ a[1] # 0

IsZero(a) == a[1] = 0 /\ a[2] # 0

IsFinite(a) == a[2] # 0

\* the sign bit
SignNeg(a) == IF a[1] = 0 THEN a[2] < 0 ELSE a[1] < 0

Zero(neg) == IF neg THEN NZero ELSE PZero

Inf(neg) == IF neg THEN NInf ELSE PInf

\* an integer, or n/2, as an f32 literal
Num(n) == IF n = 0 THEN PZero ELSE <<n, 1>>

Half(n) == IF n = 0 THEN PZero ELSE Rat(n, 2)

FNeg(a) ==
    IF IsNaN(a) THEN NaN
    ELSE IF IsZero(a) THEN <<0, -a[2]>>
    ELSE <<-a[1], a[2]>>

FAdd(a, b) ==
    IF IsNaN(a) \/ IsNaN(b) THEN NaN
    ELSE IF IsInf(a) THEN (IF IsInf(b) /\ b # a THEN NaN ELSE a)
    ELSE IF IsInf(b) THEN b
    ELSE IF IsZero(a) /\ IsZero(b) THEN (IF a = NZero /\ b = NZero THEN NZero ELSE PZero)
    ELSE IF IsZero(a) THEN b
    ELSE IF IsZero(b) THEN a
    ELSE LET n == a[1] * b[2] + b[1] * a[2]
         IN  IF n = 0 THEN PZero ELSE Rat(n, a[2] * b[2])

FSub(a, b) == FAdd(a, FNeg(b))

FMul(a, b) ==
    IF IsNaN(a) \/ IsNaN(b) THEN NaN
    ELSE LET neg == SignNeg(a) # SignNeg(b)
         IN  IF IsInf(a) \/ IsInf(b)
             THEN (IF IsZero(a) \/ IsZero(b) THEN NaN ELSE Inf(neg))
             ELSE IF IsZero(a) \/ IsZero(b) THEN Zero(neg)
             ELSE Rat(a[1] * b[1], a[2] * b[2])

FDiv(a, b) ==
    IF IsNaN(a) \/ IsNaN(b) THEN NaN
    ELSE LET neg == SignNeg(a) # SignNeg(b)
         IN  IF IsInf(a) THEN (IF IsInf(b) THEN NaN ELSE Inf(neg))
             ELSE IF IsInf(b) THEN Zero(neg)
             ELSE IF IsZero(b) THEN (IF IsZero(a) THEN NaN ELSE Inf(neg))
             ELSE IF IsZero(a) THEN Zero(neg)
             ELSE Rat(a[1] * b[2], a[2] * b[1])

\* the comparisons of PartialOrd / PartialEq for f32: every comparison with NaN is false
FLt(a, b) ==
    IF IsNaN(a) \/ IsNaN(b) THEN FALSE
    ELSE IF IsInf(a) \/ IsInf(b)
         THEN (a = NInf /\ b # NInf) \/ (b = PInf /\ a # PInf)
         ELSE a[1] * Abs(b[2]) < b[1] * Abs(a[2])

FGt(a, b) == FLt(b, a)

FEq(a, b) ==
    IF IsNaN(a) \/ IsNaN(b) THEN FALSE
    ELSE IF IsInf(a) \/ IsInf(b) THEN a = b
    ELSE a[1] * Abs(b[2]) = b[1] * Abs(a[2])

FNe(a, b) == ~FEq(a, b)

FLe(a, b) == FLt(a, b) \/ FEq(a, b)

---------------------------------------------------------------------------
(* Point2D: <<x, y>>                                                        *)

Point2D(x, y) == <<x, y>>

\* PartialEq for Point2D
PEq(p, q) == FEq(p[1], q[1]) /\ FEq(p[2], q[2])

\* PartialOrd for Point2D: by x, then (x equal) by y
PLt(p, q) == IF FEq(p[1], q[1]) THEN FLt(p[2], q[2]) ELSE FLt(p[1], q[1])

PGt(p, q) == IF FEq(p[1], q[1]) THEN FGt(p[2], q[2]) ELSE FGt(p[1], q[1])

PLe(p, q) == IF FEq(p[1], q[1]) THEN FLe(p[2], q[2]) ELSE FLt(p[1], q[1])

\* Sub for Point2D
PSub(p, q) == Point2D(FSub(p[1], q[1]), FSub(p[2], q[2]))

\* Point2D::dot
dot(p, q) == FAdd(FMul(p[1], q[1]), FMul(p[2], q[2]))

\* Point2D::cross
point_cross(p, q) == FSub(FMul(p[1], q[2]), FMul(p[2], q[1]))

---------------------------------------------------------------------------
(* LinearEquation: [k |-> "Slope", a, b] for y = a x + b,                   *)
(*                 [k |-> "Vertical", a |-> x, b |-> x] for x = const       *)

Slope(a, b) == [k |-> "Slope", a |-> a, b |-> b]

Vertical(x) == [k |-> "Vertical", a |-> x, b |-> x]

\* LinearEquation::y on a Slope (the callers unwrap it on a Slope only)
y(eq, x) == FAdd(FMul(eq.a, x), eq.b)

from_2_points(p1, p2) ==
    LET x_diff == FSub(p2[1], p1[1])
    IN  IF FEq(x_diff, PZero) THEN Vertical(p1[1])
        ELSE LET slope == FDiv(FSub(p2[2], p1[2]), x_diff)
             IN  Slope(slope, FSub(p1[2], FMul(slope, p1[1])))

orthogonal_at_point(eq, x, yy) ==
    IF eq.k = "Slope"
    THEN LET slope == FNeg(FDiv(Num(1), eq.a))
         IN  IF FEq(slope, PZero) THEN Vertical(x)
             ELSE Slope(slope, FSub(yy, FMul(slope, x)))
    ELSE Slope(PZero, yy)

project_onto(eq, x, yy) ==
    IF eq.k = "Slope"
    THEN LET other == orthogonal_at_point(eq, x, yy)
         IN  IF other.k = "Slope"
             THEN LET px == FDiv(FSub(other.b, eq.b), FSub(eq.a, other.a))
                  IN  <<px, y(eq, px)>>
             ELSE <<other.a, y(eq, other.a)>>
    ELSE <<eq.a, yy>>

---------------------------------------------------------------------------
(* Line2D: <<p0, p1>>                                                       *)

Line2D(p1, p2) == <<p1, p2>>

earlier_index(l) ==
    IF FLt(l[1][1], l[2][1]) THEN 1
    ELSE IF FGt(l[1][1], l[2][1]) THEN 2
    ELSE IF FLt(l[1][2], l[2][2]) THEN 1 ELSE 2

earlier(l) == l[earlier_index(l)]

later(l) == l[3 - earlier_index(l)]

length_manhattan(l) ==
    LET dx0 == FSub(l[1][1], l[2][1])
        dx == IF FLt(dx0, PZero) THEN FNeg(dx0) ELSE dx0
        dy0 == FSub(l[1][2], l[2][2])
        dy == IF FLt(dy0, PZero) THEN FNeg(dy0) ELSE dy0
    IN  FAdd(dx, dy)

\* Line2D::closest_point_on_segment
closest_point_on_segment(self, p) ==
    LET a == self[1]
        ab == PSub(self[2], a)
        ap == PSub(p, a)
        t == FDiv(dot(ap, ab), dot(ab, ab))
        t_clamped == IF FLt(t, PZero) THEN PZero ELSE IF FGt(t, Num(1)) THEN Num(1) ELSE t
    IN  Point2D(FAdd(a[1], FMul(ab[1], t_clamped)), FAdd(a[2], FMul(ab[2], t_clamped)))

\* Option<Line2D>: <<>> is None, <<l>> is Some(l)
None == <<>>

Some(v) == <<v>>

\* overlap that does not clamp the projected end to self.later()
overlap_clamp_EndNotClamped(self, projected_start, projected_end) ==
    LET new_start == IF PGt(projected_start, earlier(self)) THEN projected_start ELSE earlier(self)
    IN  IF PGt(new_start, projected_end) THEN None
        ELSE Some(Line2D(new_start, projected_end))

\* the end of Line2D::overlap: the projected end points of other clamped to self
overlap_clamp(self, projected_start, projected_end) ==
    LET new_start == IF PGt(projected_start, earlier(self)) THEN projected_start ELSE earlier(self)
        new_end == IF PLt(projected_end, later(self)) THEN projected_end ELSE later(self)
    IN  IF PGt(new_start, new_end) THEN None ELSE Some(Line2D(new_start, new_end))

overlap(self, other) ==
    LET plane == from_2_points(self[1], self[2])
    IN  overlap_clamp(self,
                      project_onto(plane, earlier(other)[1], earlier(other)[2]),
                      project_onto(plane, later(other)[1], later(other)[2]))

\* subtract that returns the tail before the head when the line is split in the middle
subtract_diff_TailFirst(self, diff) ==
    IF diff = None THEN <<Some(self), None>>
    ELSE LET d == diff[1]
             same_start == PEq(earlier(d), earlier(self))
             same_end == PEq(later(d), later(self))
         IN  IF same_start /\ same_end THEN <<None, None>>
             ELSE IF same_start THEN <<Some(Line2D(later(d), later(self))), None>>
             ELSE IF same_end THEN <<Some(Line2D(earlier(self), earlier(d))), None>>
             ELSE <<Some(Line2D(later(d), later(self))),
                    Some(Line2D(earlier(self), earlier(d)))>>

\* subtract whose first piece, when the line is split in the middle, runs on to the end
\* of the overlap
subtract_diff_HeadToEnd(self, diff) ==
    IF diff = None THEN <<Some(self), None>>
    ELSE LET d == diff[1]
             same_start == PEq(earlier(d), earlier(self))
             same_end == PEq(later(d), later(self))
         IN  IF same_start /\ same_end THEN <<None, None>>
             ELSE IF same_start THEN <<Some(Line2D(later(d), later(self))), None>>
             ELSE IF same_end THEN <<Some(Line2D(earlier(self), earlier(d))), None>>
             ELSE <<Some(Line2D(earlier(self), later(d))),
                    Some(Line2D(later(d), later(self)))>>

\* (first, second) of Line2D::subtract, each an Option<Line2D>
\* the match of Line2D::subtract on diff, the overlap of self and other
subtract_diff(self, diff) ==
    IF diff = None THEN <<Some(self), None>>
    ELSE LET d == diff[1]
             start_is_different ==
                 FNe(earlier(d)[1], earlier(self)[1]) \/ FNe(earlier(d)[2], earlier(self)[2])
             end_is_different ==
                 FNe(later(d)[1], later(self)[1]) \/ FNe(later(d)[2], later(self)[2])
         IN  IF ~start_is_different /\ ~end_is_different THEN <<None, None>>
             ELSE IF ~start_is_different /\ end_is_different
                  THEN <<Some(Line2D(later(d), later(self))), None>>
             ELSE IF start_is_different /\ ~end_is_different
                  THEN <<Some(Line2D(earlier(self), earlier(d))), None>>
             ELSE <<Some(Line2D(earlier(self), earlier(d))),
                    Some(Line2D(later(d), later(self)))>>

subtract(self, other) == subtract_diff(self, overlap(self, other))

---------------------------------------------------------------------------
(* Shape2D on a sequence of points (Polygon2D.points, Triangle2D.points)    *)

RECURSIVE center_loop(_, _, _)
center_loop(points, i, acc) ==
    IF i > Len(points) THEN acc
    ELSE LET p0 == points[i]
             p1 == points[(i % Len(points)) + 1]
             cross == FSub(FMul(p0[1], p1[2]), FMul(p1[1], p0[2]))
         IN  center_loop(points, i + 1,
                 [area |-> FAdd(acc.area, cross),
                  cx |-> FAdd(acc.cx, FMul(FAdd(p0[1], p1[1]), cross)),
                  cy |-> FAdd(acc.cy, FMul(FAdd(p0[2], p1[2]), cross))])

\* Polygon2D::center (the callers pass at least 3 points)
center(points) ==
    LET acc == center_loop(points, 1, [area |-> PZero, cx |-> PZero, cy |-> PZero])
        area == FMul(acc.area, Half(1))
        factor == FDiv(Num(1), FMul(Num(6), area))
    IN  Point2D(FMul(acc.cx, factor), FMul(acc.cy, factor))

\* One edge of the even-odd ray cast:
\*   (y1 > py) != (y2 > py) && px < (x2 - x1) * (py - y1) / (y2 - y1 + EPSILON) + x1
\* EPSILON is 2^-23.  It is absorbed by an infinite or NaN denominator, and on the
\* coordinates used here it moves a finite crossing by less than the distance between
\* two distinct values: the crossing moves up exactly when the numerator is negative,
\* which decides only the case of px on the crossing itself.
edge_intersect(a, b, point) ==
    LET px == point[1]
        py == point[2]
        num == FMul(FSub(b[1], a[1]), FSub(py, a[2]))
        crossing == FAdd(FDiv(num, FSub(b[2], a[2])), a[1])
    IN  /\ FGt(a[2], py) # FGt(b[2], py)
        /\ \/ FLt(px, crossing)
           \/ IsFinite(crossing) /\ FEq(px, crossing) /\ FLt(num, PZero)

\* Shape2D::point_in_shape: inside toggles once per intersecting edge
point_in_shape(points, point) ==
    LET n == Len(points)
    IN  Cardinality({i \in 1..n : edge_intersect(points[i], points[(i % n) + 1], point)}) % 2 = 1

RECURSIVE project_loop(_, _, _, _, _)

\* the body of the loop of project_onto_plane for p, the projection of points[i]
project_step(points, plane, i, start, end, p) ==
    project_loop(points, plane, i + 1,
                 IF PLt(p, start) THEN p ELSE start,
                 IF PGt(p, end) THEN p ELSE end)

project_loop(points, plane, i, start, end) ==
    IF i > Len(points) THEN Line2D(start, end)
    ELSE project_step(points, plane, i, start, end,
                      project_onto(plane, points[i][1], points[i][2]))

\* Shape2D::project_onto_plane (the callers pass at least 1 point)
project_onto_plane(points, plane) ==
    LET p == project_onto(plane, points[1][1], points[1][2])
    IN  project_loop(points, plane, 1, p, p)

\* Polygon2D::edges: one Line2D per point, to the next point, the last to the first
polygon_edges(points) ==
    [i \in 1..Len(points) |-> Line2D(points[i], points[(i % Len(points)) + 1])]

\* Triangle2D::edges
triangle_edges(points) ==
    <<Line2D(points[1], points[2]), Line2D(points[2], points[3]),
      Line2D(points[2], points[1])>>

\* the end of Triangle2D::point_in_shape, from the five dot products and denom
barycentric_test(dot00, dot01, dot02, dot11, dot12, denom) ==
    IF FNe(denom, PZero) THEN TRUE
    ELSE LET inv_denom == FDiv(Num(1), denom)
             u == FMul(FSub(FMul(dot11, dot02), FMul(dot01, dot12)), inv_denom)
             v == FMul(FSub(FMul(dot00, dot12), FMul(dot01, dot02)), inv_denom)
         IN  FLe(PZero, u) /\ FLe(PZero, v) /\ FLe(FAdd(u, v), Num(1))

\* Triangle2D::point_in_shape from the vectors v0 = c - a, v1 = b - a, v2 = point - a
barycentric(v0, v1, v2) ==
    barycentric_test(dot(v0, v0), dot(v0, v1), dot(v0, v2), dot(v1, v1), dot(v1, v2),
                     FSub(FMul(dot(v0, v0), dot(v1, v1)), FMul(dot(v0, v1), dot(v0, v1))))

\* Triangle2D::point_in_shape
triangle_point_in_shape(points, p) ==
    barycentric(PSub(points[3], points[1]), PSub(points[2], points[1]), PSub(p, points[1]))

Ok(v) == [ok |-> TRUE, value |-> v]

Err == [ok |-> FALSE, value |-> <<>>]

\* ArrayVec::extend: push the items one by one
RECURSIVE extend(_, _, _)
extend(acc, items, i) ==
    IF i > Len(items) THEN acc ELSE extend(Append(acc, items[i]), items, i + 1)

\* resize that keeps the first M points of a longer polygon
resize_Truncating(points, M) ==
    Ok(extend(<<>>, SubSeq(points, 1, IF Len(points) > M THEN M ELSE Len(points)), 1))

\* Polygon2D<N>::resize::<M>
resize(points, M) ==
    IF Len(points) > M THEN Err ELSE Ok(extend(<<>>, points, 1))

\* PartialEq for Polygon2D<N>: the inner loop for self.points[i] over j, on the flags
\* used; indexing either list past its length panics
RECURSIVE eq_inner(_, _, _, _, _, _)
eq_inner(N, self, other, i, j, used) ==
    IF j > N THEN [used |-> used, panicked |-> FALSE]
    ELSE IF i > Len(self) \/ j > Len(other) THEN [used |-> used, panicked |-> TRUE]
    ELSE IF PEq(self[i], other[j]) /\ ~used[j]
         THEN [used |-> [used EXCEPT ![j] = TRUE], panicked |-> FALSE]
         ELSE eq_inner(N, self, other, i, j + 1, used)

RECURSIVE eq_outer(_, _, _, _, _)

\* the rest of the outer loop after the inner loop for i returned r
eq_next(N, self, other, i, r) ==
    IF r.panicked THEN r ELSE eq_outer(N, self, other, i + 1, r.used)

eq_outer(N, self, other, i, used) ==
    IF i > N THEN [used |-> used, panicked |-> FALSE]
    ELSE eq_next(N, self, other, i, eq_inner(N, self, other, i, 1, used))

\* what used.iter().all(|&x| x) returns after the loops, or "panic"
eq_result(N, r) ==
    IF r.panicked THEN "panic"
    ELSE IF \A j \in 1..N : r.used[j] THEN "true" ELSE "false"

\* self == other for two Polygon2D<N>: "true", "false" or "panic"
polygon_eq(N, self, other) ==
    eq_result(N, eq_outer(N, self, other, 1, [j \in 1..N |-> FALSE]))

---------------------------------------------------------------------------
(* convex_hull (geom/misc.rs) on a list of points that are numbers          *)

\* misc::orientation: positive when a, b, c turn left
orientation(a, b, c) == point_cross(PSub(b, a), PSub(c, a))

\* Point2D::distance_squared
distance_squared(p, q) ==
    FAdd(FMul(FSub(p[1], q[1]), FSub(p[1], q[1])), FMul(FSub(p[2], q[2]), FSub(p[2], q[2])))

\* Ordering of partial_cmp on two numbers
partial_cmp(a, b) == IF FLt(a, b) THEN "Less" ELSE IF FGt(a, b) THEN "Greater" ELSE "Equal"

\* Ordering::reverse
reverse(o) == IF o = "Less" THEN "Greater" ELSE IF o = "Greater" THEN "Less" ELSE o

\* Ordering::then
then(o, next) == IF o = "Equal" THEN next ELSE o

\* da.partial_cmp(&db) for da = p.hypotenuse() and db = q.hypotenuse().  hypotenuse is
\* sqrt(distance_squared(origin), 20), twenty Newton steps from d / 2; on the squared
\* lengths that occur here its value grows with d and is the same for the same d, so
\* the roots compare as the squares do
hypotenuse_cmp(p, q) ==
    partial_cmp(distance_squared(p, Point2D(PZero, PZero)),
                distance_squared(q, Point2D(PZero, PZero)))

\* the min_by comparison of step 1: by y, then by x
lowest_cmp(a, b) == then(partial_cmp(a[2], b[2]), partial_cmp(a[1], b[1]))

\* step 1: the index of the lowest point (Iterator::min_by keeps the first of equal
\* minima)
pivot_index(points) ==
    CHOOSE i \in 1..Len(points) :
        \A j \in 1..Len(points) :
            \/ lowest_cmp(points[i], points[j]) = "Less"
            \/ lowest_cmp(points[i], points[j]) = "Equal" /\ i <= j

\* slice::swap
swap(s, i, j) == [s EXCEPT ![i] = s[j], ![j] = s[i]]

\* the comparison of step 2 for the orientation o of (pivot, a, b)
angle_cmp_for(pivot, a, b, o) ==
    IF FEq(o, PZero) THEN hypotenuse_cmp(PSub(a, pivot), PSub(b, pivot))
    ELSE reverse(partial_cmp(o, PZero))

angle_cmp(pivot, a, b) == angle_cmp_for(pivot, a, b, orientation(pivot, a, b))

\* insertion_sort_by: the while loop that moves slice[j] down
RECURSIVE insertion_inner(_, _, _)
insertion_inner(pivot, slice, j) ==
    IF j > 1 /\ angle_cmp(pivot, slice[j], slice[j - 1]) = "Less"
    THEN insertion_inner(pivot, swap(slice, j, j - 1), j - 1)
    ELSE slice

\* insertion_sort_by with the comparison of step 2: the for loop from position i
RECURSIVE insertion_sort_by(_, _, _)
insertion_sort_by(pivot, slice, i) ==
    IF i > Len(slice) THEN slice
    ELSE insertion_sort_by(pivot, insertion_inner(pivot, slice, i), i + 1)

\* the while loop of step 3 that keeps a point after which p turns right or goes
\* straight on
RECURSIVE hull_pop_KeepStraight(_, _)
hull_pop_KeepStraight(stack, p) ==
    IF Len(stack) >= 2 /\ FLt(orientation(stack[Len(stack) - 1], stack[Len(stack)], p), PZero)
    THEN hull_pop_KeepStraight(SubSeq(stack, 1, Len(stack) - 1), p)
    ELSE stack

\* the while loop of step 3: pop while the last two points and p make no left turn
RECURSIVE hull_pop(_, _)
hull_pop(stack, p) ==
    IF Len(stack) >= 2 /\ FLe(orientation(stack[Len(stack) - 1], stack[Len(stack)], p), PZero)
    THEN hull_pop(SubSeq(stack, 1, Len(stack) - 1), p)
    ELSE stack

\* the for loop of step 3 from points[k]
RECURSIVE hull_scan(_, _, _)
hull_scan(points, k, stack) ==
    IF k > Len(points) THEN stack
    ELSE hull_scan(points, k + 1, Append(hull_pop(stack, points[k]), points[k]))

\* steps 2 and 3: sort points[1..] around the pivot points[0], then scan with a stack
\* that starts as [points[0], points[1]]
hull_from_sorted(sorted) == hull_scan(sorted, 3, <<sorted[1], sorted[2]>>)

hull_from_pivot(points) ==
    hull_from_sorted(<<points[1]>> \o
                     insertion_sort_by(points[1], SubSeq(points, 2, Len(points)), 2))

\* misc::convex_hull
convex_hull(points) ==
    IF Len(points) <= 3 THEN points
    ELSE hull_from_pivot(swap(points, 1, pivot_index(points)))

\* Shape2D::convex_hull_with_other_shape, for a NEW_SZ that holds the points of both
convex_hull_with_other_shape(points, other_points) ==
    convex_hull(extend(extend(<<>>, points, 1), other_points, 1))

---------------------------------------------------------------------------
(* LruMap<K, V, S> (structs/lru_map.rs)                                      *)

\* ArrayVec::remove
RemoveAt(s, i) == SubSeq(s, 1, i - 1) \o SubSeq(s, i + 1, Len(s))

\* capacity of data (the const parameter S)
LruCap == 2

\* an entry of data: (operation, key, value)
Entry(op, k, v) == <<op, k, v>>

\* the for loop of least_recently_used from entry i on; least is None or
\* Some(IndexAndOp), here the pair (index, operation)
RECURSIVE lru_scan(_, _, _)
lru_scan(entries, i, least) ==
    IF i > Len(entries) THEN least
    ELSE IF least = None THEN lru_scan(entries, i + 1, Some(<<i, entries[i][1]>>))
    ELSE IF least[1][2] > entries[i][1]
         THEN lru_scan(entries, i + 1, Some(<<i, entries[i][1]>>))
         ELSE lru_scan(entries, i + 1, least)

\* LruMap::least_recently_used: the index of the entry of smallest operation, if any
least_recently_used(entries) ==
    IF lru_scan(entries, 1, None) = None THEN None
    ELSE Some(lru_scan(entries, 1, None)[1][1])

\* insert once new_op is taken and the entry at index lru (0: none) is to be removed
insert_at(entries, new_op, key, value, lru) ==
    [data |-> Append(IF lru = 0 THEN entries ELSE RemoveAt(entries, lru),
                     Entry(new_op, key, value)),
     next_operation |-> new_op + 1,
     removed |-> lru,
     result |-> IF lru = 0 THEN None ELSE Some(<<entries[lru][2], entries[lru][3]>>),
     panicked |-> FALSE]

\* LruMap::insert; expect panics when the map is full and has no entry (S = 0)
insert(entries, op, key, value) ==
    IF Len(entries) < LruCap THEN insert_at(entries, op, key, value, 0)
    ELSE IF least_recently_used(entries) = None
    THEN [data |-> entries, next_operation |-> op + 1, removed |-> 0, result |-> None,
          panicked |-> TRUE]
    ELSE insert_at(entries, op, key, value, least_recently_used(entries)[1])

\* the for loop of get from entry i on: the index of the first entry with the key, or 0
RECURSIVE get_scan(_, _, _)
get_scan(entries, key, i) ==
    IF i > Len(entries) THEN 0
    ELSE IF key = entries[i][2] THEN i
    ELSE get_scan(entries, key, i + 1)

\* get that leaves the operation of the entry it found as it was
get_found_NoTouch(entries, new_op, hit) ==
    [data |-> entries,
     next_operation |-> new_op + 1,
     hit |-> hit,
     result |-> IF hit = 0 THEN None ELSE Some(entries[hit][3])]

\* get once new_op is taken and the loop stopped at index hit (0: not found)
get_found(entries, new_op, hit) ==
    [data |-> IF hit = 0 THEN entries ELSE [entries EXCEPT ![hit][1] = new_op],
     next_operation |-> new_op + 1,
     hit |-> hit,
     result |-> IF hit = 0 THEN None ELSE Some(entries[hit][3])]

\* LruMap::get
get(entries, op, key) == get_found(entries, op, get_scan(entries, key, 1))

\* LruMap::len
len(entries) == Len(entries)

---------------------------------------------------------------------------
(* rotate_slice (algos/slice/rotating.rs)                                    *)

\* width of usize in bits
UsizeBits == 3

\* usize::MAX
UsizeMax == 2 ^ UsizeBits - 1

\* core::cmp::min
min(a, b) == IF a < b THEN a ELSE b

\* a + b on usize: None where a build with overflow checks panics, the wrapped sum
\* otherwise
usize_add(a, b, checked) ==
    IF a + b > UsizeMax /\ checked THEN None ELSE Some((a + b) % (UsizeMax + 1))

\* a - b on usize, likewise
usize_sub(a, b, checked) ==
    IF a < b /\ checked THEN None ELSE Some((a - b + UsizeMax + 1) % (UsizeMax + 1))

\* &source[from..to]: None where the index panics (from > to, or to > len)
slice(source, from, to) ==
    IF from > to \/ to > Len(source) THEN None ELSE Some(SubSeq(source, from + 1, to))

\* the pair returned, or a panic when a slice or the arithmetic panicked
slices(first, second) ==
    IF first = None \/ second = None
    THEN [panicked |-> TRUE, first |-> <<>>, second |-> <<>>]
    ELSE [panicked |-> FALSE, first |-> first[1], second |-> second[1]]

\* the else branch of rotate_slice; sub is width - (source.len() - animation_index)
rotate_rest(source, animation_index, sub) ==
    IF sub = None THEN slices(None, None)
    ELSE slices(slice(source, animation_index, Len(source)),
                slice(source, 0, min(Len(source), sub[1])))

\* rotate_slice from the normalised animation_index; sum is animation_index + width
rotate_from(source, animation_index, width, sum, checked) ==
    IF sum = None THEN slices(None, None)
    ELSE IF sum[1] < Len(source)
    THEN slices(slice(source, animation_index, sum[1]), Some(<<>>))
    ELSE rotate_rest(source, animation_index,
                     usize_sub(width, Len(source) - animation_index, checked))

\* rotate_slice(source, frame, step, width), for a non-empty source and step >= 1, in a
\* build with overflow checks (checked) or without
rotate_slice(source, frame, step, width, checked) ==
    rotate_from(source, (frame \div step) % Len(source), width,
                usize_add((frame \div step) % Len(source), width, checked), checked)

---------------------------------------------------------------------------
(* LineOfSight<SZ, f32>                                                     *)

\* capacity of tracked_fields (the const parameter SZ)
SZ == 2

\* the end of LineOfSight::new, from the projected lines: the tracker, or panicked
\* when the overlap is None (unwrap)
new_tracker(src_line, tgt_plane, tgt_opt) ==
    IF tgt_opt = None
    THEN [tracked_fields |-> <<>>, target_plane |-> tgt_plane, surface |-> <<>>,
          original_distance |-> NaN, panicked |-> TRUE]
    ELSE LET tgt_line == tgt_opt[1]
         IN  [tracked_fields |-> <<tgt_line>>,
              target_plane |-> tgt_plane,
              surface |-> <<tgt_line[1], tgt_line[2], src_line[2], src_line[1]>>,
              original_distance |-> length_manhattan(tgt_line),
              panicked |-> FALSE]

\* the projections of LineOfSight::new onto the two planes
new_projected(source, target, src_plane, tgt_plane) ==
    new_tracker(project_onto_plane(source, src_plane),
                tgt_plane,
                overlap(project_onto_plane(target, tgt_plane),
                        project_onto_plane(source, tgt_plane)))

\* the planes of LineOfSight::new, from the two centers
new_planes(source, target, sc, tc) ==
    LET direction_plane == from_2_points(sc, tc)
    IN  new_projected(source, target,
                      orthogonal_at_point(direction_plane, sc[1], sc[2]),
                      orthogonal_at_point(direction_plane, tc[1], tc[2]))

\* LineOfSight::new
LosNew(source, target) == new_planes(source, target, center(source), center(target))

\* the surface test that lets every obstacle through
blocker_in_surface_Always(surf, other) == other = other

\* "Check if blocker is in FOV surface"
blocker_in_surface(surf, other) ==
    \E i \in 1..Len(other) : point_in_shape(surf, other[i])

\* The while loop of block_view; i is the 1-based loop index.  acc.blocked collects the
\* second pieces; pushing onto a full ArrayVec<_, SZ> panics.
RECURSIVE subtract_loop(_, _, _, _)

\* the iteration that moves on to index i + 1 after a removal too, and so skips the
\* field that took the place of the one removed
subtract_step_SkipAfterRemove(fields, i, other, acc, r) ==
    IF r[2] # None /\ Len(acc.blocked) >= SZ
    THEN [acc EXCEPT !.fields = fields, !.panicked = TRUE]
    ELSE IF r[1] = None
    THEN subtract_loop(RemoveAt(fields, i), i + 1, other,
                       [acc EXCEPT !.blocked = IF r[2] # None THEN Append(@, r[2][1]) ELSE @])
    ELSE subtract_loop([fields EXCEPT ![i] = r[1][1]], i + 1, other,
                       [acc EXCEPT !.blocked = IF r[2] # None THEN Append(@, r[2][1]) ELSE @])

\* the iteration that queues the second piece but leaves the field as it was
subtract_step_KeepField(fields, i, other, acc, r) ==
    IF r[2] # None /\ Len(acc.blocked) >= SZ
    THEN [acc EXCEPT !.fields = fields, !.panicked = TRUE]
    ELSE IF r[1] = None
    THEN subtract_loop(RemoveAt(fields, i), i, other,
                       [acc EXCEPT !.blocked = IF r[2] # None THEN Append(@, r[2][1]) ELSE @])
    ELSE subtract_loop(fields, i + 1, other,
                       [acc EXCEPT !.blocked = IF r[2] # None THEN Append(@, r[2][1]) ELSE @])

\* one iteration of the loop on field i, r being (remaining, other) of its subtract
subtract_step(fields, i, other, acc, r) ==
    IF r[2] # None /\ Len(acc.blocked) >= SZ
    THEN [acc EXCEPT !.fields = fields, !.panicked = TRUE]
    ELSE IF r[1] = None
    THEN subtract_loop(RemoveAt(fields, i), i, other,
                       [acc EXCEPT !.blocked = IF r[2] # None THEN Append(@, r[2][1]) ELSE @])
    ELSE subtract_loop([fields EXCEPT ![i] = r[1][1]], i + 1, other,
                       [acc EXCEPT !.blocked = IF r[2] # None THEN Append(@, r[2][1]) ELSE @])

\* the loop that stops behind the first field
subtract_loop_FirstFieldOnly(fields, i, other, acc) ==
    IF i > 1 \/ i > Len(fields) THEN [acc EXCEPT !.fields = fields]
    ELSE subtract_step(fields, i, other, acc,
                       subtract(fields[i], project_onto_plane(other, acc.plane)))

subtract_loop(fields, i, other, acc) ==
    IF i > Len(fields) THEN [acc EXCEPT !.fields = fields]
    ELSE subtract_step(fields, i, other, acc,
                       subtract(fields[i], project_onto_plane(other, acc.plane)))

\* index of the first field of smallest Manhattan length (Iterator::min_by keeps the
\* first of equal minima)
smallest_index(fields) ==
    CHOOSE i \in 1..Len(fields) :
        \A j \in 1..Len(fields) :
            LET li == length_manhattan(fields[i])
                lj == length_manhattan(fields[j])
            IN  FLt(li, lj) \/ (FEq(li, lj) /\ i <= j)

\* partial_cmp(..).unwrap() inside min_by panics when a compared length is NaN
min_by_panics(fields) ==
    Len(fields) >= 2 /\ \E i \in 1..Len(fields) : IsNaN(length_manhattan(fields[i]))

\* add_remaining without the is_full test: the push on a full ArrayVec panics
RECURSIVE add_remaining_PushAlways(_, _, _)
add_remaining_PushAlways(fields, blocked, k) ==
    IF k > Len(blocked) THEN [fields |-> fields, panicked |-> FALSE]
    ELSE IF Len(fields) < SZ
         THEN add_remaining_PushAlways(Append(fields, blocked[k]), blocked, k + 1)
         ELSE [fields |-> fields, panicked |-> TRUE]

\* add_remaining that drops every piece queued while tracked_fields is full
RECURSIVE add_remaining_NeverReplace(_, _, _)
add_remaining_NeverReplace(fields, blocked, k) ==
    IF k > Len(blocked) THEN [fields |-> fields, panicked |-> FALSE]
    ELSE IF Len(fields) < SZ
         THEN add_remaining_NeverReplace(Append(fields, blocked[k]), blocked, k + 1)
         ELSE add_remaining_NeverReplace(fields, blocked, k + 1)

\* "Add all remaining lines": the for loop over the queued second pieces
RECURSIVE add_remaining(_, _, _)
add_remaining(fields, blocked, k) ==
    IF k > Len(blocked) THEN [fields |-> fields, panicked |-> FALSE]
    ELSE LET blocker == blocked[k]
         IN  IF Len(fields) < SZ
             THEN add_remaining(Append(fields, blocker), blocked, k + 1)
             ELSE IF min_by_panics(fields) THEN [fields |-> fields, panicked |-> TRUE]
             ELSE LET smallest == smallest_index(fields)
                      distance == length_manhattan(fields[smallest])
                  IN  IF FGt(length_manhattan(blocker), distance)
                      THEN add_remaining([fields EXCEPT ![smallest] = blocker], blocked, k + 1)
                      ELSE add_remaining(fields, blocked, k + 1)

\* block_view that ends with Ok without looking at tracked_fields
block_view_result_AlwaysOk(added, pieces) ==
    [fields |-> added.fields,
     result |-> IF added.panicked THEN "panic" ELSE "Ok",
     panicked |-> added.panicked,
     pieces |-> pieces]

\* the end of block_view: Err when no field is left
block_view_result(added, pieces) ==
    [fields |-> added.fields,
     result |-> IF added.panicked THEN "panic"
                ELSE IF added.fields = <<>> THEN "Err" ELSE "Ok",
     panicked |-> added.panicked,
     pieces |-> pieces]

\* block_view after the while loop
block_view_add(pass) ==
    block_view_result(IF pass.panicked THEN [fields |-> pass.fields, panicked |-> TRUE]
                      ELSE add_remaining(pass.fields, pass.blocked, 1),
                      pass.fields \o pass.blocked)

\* block_view without the early return on an empty tracked_fields
block_view_NoEmptyCheck(fields, plane, surf, other) ==
    IF ~blocker_in_surface(surf, other)
    THEN [fields |-> fields, result |-> "Ok", panicked |-> FALSE, pieces |-> <<>>]
    ELSE block_view_add(subtract_loop(fields, 1, other,
                            [fields |-> fields, blocked |-> <<>>, plane |-> plane,
                             panicked |-> FALSE]))

\* block_view without the test that the blocker is in the surface
block_view_NoSurfaceTest(fields, plane, surf, other) ==
    IF fields = <<>>
    THEN [fields |-> fields, result |-> "Err", panicked |-> FALSE, pieces |-> <<>>]
    ELSE block_view_add(subtract_loop(fields, 1, other,
                            [fields |-> fields, blocked |-> <<>>, plane |-> plane,
                             panicked |-> FALSE]))

\* LineOfSight::block_view on the tracker (fields, plane, surf): the fields left, the
\* result, whether the call panicked, and the pieces of the pass (what the while loop
\* left in tracked_fields, then the second halves it queued; none when the loop is not
\* entered)
block_view(fields, plane, surf, other) ==
    IF fields = <<>>
    THEN [fields |-> fields, result |-> "Err", panicked |-> FALSE, pieces |-> <<>>]
    ELSE IF ~blocker_in_surface(surf, other)
    THEN [fields |-> fields, result |-> "Ok", panicked |-> FALSE, pieces |-> <<>>]
    ELSE block_view_add(subtract_loop(fields, 1, other,
                            [fields |-> fields, blocked |-> <<>>, plane |-> plane,
                             panicked |-> FALSE]))

partially_blocked(fields, distance) ==
    IF Len(fields) # 1 THEN TRUE
    ELSE FLt(length_manhattan(fields[1]), distance)

totally_blocked(fields) == fields = <<>>

---------------------------------------------------------------------------
(* FieldOfView<SZ, f32> (structs/game/fov.rs)                                *)

\* FieldOfView::new: the fields of LineOfSight::new but original_distance, computed by
\* the same statements (fov.rs 49-75)
FovNew(source, target) == LosNew(source, target)

\* The while loop of FieldOfView::block_view; i is the 1-based loop index (i = 1 is the
\* index 0 of the code).  After a removal the code runs i -= 1 and then i += 1: at
\* index 0 the subtraction leaves the range of usize, which panics in a build with
\* overflow checks (checked) and wraps to usize::MAX, then back to 0, in one without.
\* acc.underflow records that this happened.
RECURSIVE fov_subtract_loop(_, _, _, _, _)

\* one iteration of the loop on field i, r being (remaining, other) of its subtract
fov_subtract_step(fields, i, other, acc, r, checked) ==
    IF r[2] # None /\ Len(acc.blocked) >= SZ
    THEN [acc EXCEPT !.fields = fields, !.panicked = TRUE]
    ELSE IF r[1] = None
    THEN IF i = 1 /\ checked
         THEN [acc EXCEPT !.fields = RemoveAt(fields, i), !.panicked = TRUE,
                          !.underflow = TRUE,
                          !.blocked = IF r[2] # None THEN Append(@, r[2][1]) ELSE @]
         ELSE fov_subtract_loop(RemoveAt(fields, i), i, other,
                  [acc EXCEPT !.underflow = @ \/ i = 1,
                              !.blocked = IF r[2] # None THEN Append(@, r[2][1]) ELSE @],
                  checked)
    ELSE fov_subtract_loop([fields EXCEPT ![i] = r[1][1]], i + 1, other,
             [acc EXCEPT !.blocked = IF r[2] # None THEN Append(@, r[2][1]) ELSE @],
             checked)

fov_subtract_loop(fields, i, other, acc, checked) ==
    IF i > Len(fields) THEN [acc EXCEPT !.fields = fields]
    ELSE fov_subtract_step(fields, i, other, acc,
                           subtract(fields[i], project_onto_plane(other, acc.plane)),
                           checked)

\* FieldOfView::block_view after the while loop: the loop that adds the queued pieces
\* and the result are those of LineOfSight::block_view (fov.rs 138-163)
fov_block_view_add(pass) ==
    [underflow |-> pass.underflow] @@ block_view_add(pass)

\* FieldOfView::block_view on the tracker (fields, plane, surf)
fov_block_view(fields, plane, surf, other, checked) ==
    IF fields = <<>>
    THEN [fields |-> fields, result |-> "Err", panicked |-> FALSE, pieces |-> <<>>,
          underflow |-> FALSE]
    ELSE IF ~blocker_in_surface(surf, other)
    THEN [fields |-> fields, result |-> "Ok", panicked |-> FALSE, pieces |-> <<>>,
          underflow |-> FALSE]
    ELSE fov_block_view_add(fov_subtract_loop(fields, 1, other,
                                [fields |-> fields, blocked |-> <<>>, plane |-> plane,
                                 panicked |-> FALSE, underflow |-> FALSE],
                                checked))

---------------------------------------------------------------------------
(* The tracker as a state machine: constructed by new, then block_view      *)

Pt(x, yy) == Point2D(Num(x), Num(yy))

\* the source polygon: a rectangle with corners (4.5, 0), (5.5, 1), (1, 5.5), (0, 4.5)
SourceShape ==
    <<Point2D(Half(9), Num(0)), Point2D(Half(11), Num(1)),
      Point2D(Num(1), Half(11)), Point2D(Num(0), Half(9))>>

Shifted(shape, dx, dy) ==
    [i \in 1..Len(shape) |-> Point2D(FAdd(shape[i][1], Num(dx)), FAdd(shape[i][2], Num(dy)))]

\* the target lies diagonally from, above, or right of the source
Arrangements ==
    { [source |-> SourceShape, target |-> Shifted(SourceShape, 6, 6)],
      [source |-> SourceShape, target |-> Shifted(SourceShape, 0, 8)],
      [source |-> SourceShape, target |-> Shifted(SourceShape, 8, 0)] }

\* the obstacles: the triangles (p, p + (w, 0), p + (w, w)) with p = (5 + j, 5 - j),
\* which lie across the view between the diagonal pair; Wall, which spans that view
\* from side to side with one vertex in it; and Behind, as wide, beyond the target
AnchorSpan == 2

ObstacleWidths == {1, 4}

Obstacle(j, w) == <<Pt(5 + j, 5 - j), Pt(5 + j + w, 5 - j), Pt(5 + j + w, 5 - j + w)>>

Wall == <<Pt(2, 8), Pt(8, 2), Pt(6, 6)>>

Behind == <<Pt(6, 12), Pt(12, 6), Pt(10, 10)>>

Obstacles ==
    { Obstacle(j, w) : j \in (-AnchorSpan)..AnchorSpan, w \in ObstacleWidths }
        \cup {Wall, Behind}

NoLine == <<>>

\* line_out before any call: each result is <<>>, and <<r>> once the call returned r
NoCall == [overlap |-> <<>>, subtract |-> <<>>, reverse |-> <<>>]

\* no call on an equation, a point or a shape is involved
NoArgs ==
    /\ equation = <<>>
    /\ arg_point = <<>>
    /\ self_shape = <<>>
    /\ other_shape = <<>>
    /\ ret = <<>>

\* no LruMap is involved
NoLruMap ==
    /\ data = <<>>
    /\ next_operation = 0
    /\ recency = <<>>

\* no LruMap and no rotate_slice call is involved
NoMapOrSlice ==
    /\ NoLruMap
    /\ slice_args = <<>>

\* the tracker constructed by new; no Line2D call has been made
InitTracker(los) ==
    /\ tracked_fields = los.tracked_fields
    /\ target_plane = los.target_plane
    /\ surface = los.surface
    /\ original_distance = los.original_distance
    /\ panicked = los.panicked
    /\ call = [op |-> "new", other |-> <<>>, result |-> "none", before |-> 0, pieces |-> <<>>,
               fields |-> <<>>]
    /\ line_a = NoLine
    /\ line_b = NoLine
    /\ line_out = NoCall
    /\ NoArgs
    /\ NoMapOrSlice

Init == \E arr \in Arrangements : InitTracker(LosNew(arr.source, arr.target))

\* the tracker after a call of block_view that returned r
BlockViewReturn(other, r) ==
    /\ tracked_fields' = r.fields
    /\ panicked' = r.panicked
    /\ call' = [op |-> "block_view", other |-> other, result |-> r.result,
                before |-> Len(tracked_fields), pieces |-> r.pieces,
                fields |-> tracked_fields]
    /\ UNCHANGED <<target_plane, surface, original_distance>>
    /\ UNCHANGED line_vars
    /\ UNCHANGED fn_vars
    /\ UNCHANGED lru_vars
    /\ UNCHANGED slice_args

BlockView(other) ==
    /\ ~panicked
    /\ BlockViewReturn(other, block_view(tracked_fields, target_plane, surface, other))

Next == \E other \in Obstacles : BlockView(other)

Spec == Init /\ [][Next]_vars

---------------------------------------------------------------------------
(* Line2D on its own: overlap and subtract called on a pair of segments     *)

\* the segments have their end points on the grid 0..GMax x 0..GMax
GMax == 2

GridPoints == { Pt(x, yy) : x, yy \in 0..GMax }

\* other: any segment of the grid, in either direction, a single point included
SegmentsB == { Line2D(p, q) : p, q \in GridPoints }

\* self: the segments that are vertical, horizontal, diagonal or a single point.  The
\* projection of a grid point onto their line is a grid point, a half, or not a number,
\* all of which f32 computes exactly
SegmentsA ==
    { l \in SegmentsB :
        \/ l[1][1] = l[2][1]
        \/ l[1][2] = l[2][2]
        \/ FSub(l[2][1], l[1][1]) = FSub(l[2][2], l[1][2])
        \/ FSub(l[2][1], l[1][1]) = FSub(l[1][2], l[2][2]) }

\* no tracker is involved
NoTracker ==
    /\ tracked_fields = <<>>
    /\ target_plane = Vertical(PZero)
    /\ surface = <<>>
    /\ original_distance = PZero
    /\ call = [op |-> "none", other |-> <<>>, result |-> "none", before |-> 0,
               pieces |-> <<>>, fields |-> <<>>]
    /\ panicked = FALSE

InitLine ==
    /\ line_a \in SegmentsA
    /\ line_b \in SegmentsB
    /\ line_out = NoCall
    /\ NoTracker
    /\ NoMapOrSlice
    /\ NoArgs

\* line_a.overlap(&line_b)
LineOverlap ==
    /\ line_out.overlap = <<>>
    /\ line_out' = [line_out EXCEPT !.overlap = <<overlap(line_a, line_b)>>]
    /\ UNCHANGED <<line_a, line_b>>
    /\ UNCHANGED los_vars
    /\ UNCHANGED lru_vars
    /\ UNCHANGED slice_args
    /\ UNCHANGED fn_vars

\* line_a.subtract(&line_b)
LineSubtract ==
    /\ line_out.subtract = <<>>
    /\ line_out' = [line_out EXCEPT !.subtract = <<subtract(line_a, line_b)>>]
    /\ UNCHANGED <<line_a, line_b>>
    /\ UNCHANGED los_vars
    /\ UNCHANGED lru_vars
    /\ UNCHANGED slice_args
    /\ UNCHANGED fn_vars

\* line_b.overlap(&line_a), for a line_b whose line projects the grid exactly
LineOverlapReverse ==
    /\ line_out.reverse = <<>>
    /\ line_b \in SegmentsA
    /\ line_out' = [line_out EXCEPT !.reverse = <<overlap(line_b, line_a)>>]
    /\ UNCHANGED <<line_a, line_b>>
    /\ UNCHANGED los_vars
    /\ UNCHANGED lru_vars
    /\ UNCHANGED slice_args
    /\ UNCHANGED fn_vars

NextLine == LineOverlap \/ LineSubtract \/ LineOverlapReverse

SpecLine == InitLine /\ [][NextLine]_vars

---------------------------------------------------------------------------
(* Line2D::closest_point_on_segment called on a segment and a point         *)

RECURSIVE PowerOfTwo(_)
PowerOfTwo(n) == n = 1 \/ (n > 1 /\ n % 2 = 0 /\ PowerOfTwo(n \div 2))

\* self: the segments of the grid, a single point included, whose squared length
\* |b - a|^2 is 0 or a power of two, so that the quotient t is exact in f32
ClosestSegments ==
    { l \in SegmentsB :
        \A d \in {dot(PSub(l[2], l[1]), PSub(l[2], l[1]))} : IsZero(d) \/ PowerOfTwo(d[1]) }

\* no Line2D overlap or subtract is involved
NoLineCall ==
    /\ line_b = NoLine
    /\ line_out = NoCall

InitClosest ==
    /\ line_a \in ClosestSegments
    /\ arg_point \in GridPoints
    /\ ret = <<>>
    /\ equation = <<>>
    /\ self_shape = <<>>
    /\ other_shape = <<>>
    /\ NoLineCall
    /\ NoTracker
    /\ NoMapOrSlice

\* line_a.closest_point_on_segment(&arg_point)
ClosestPointOnSegment ==
    /\ ret = <<>>
    /\ ret' = <<closest_point_on_segment(line_a, arg_point)>>
    /\ UNCHANGED <<equation, arg_point, self_shape, other_shape>>
    /\ UNCHANGED line_vars
    /\ UNCHANGED los_vars
    /\ UNCHANGED lru_vars
    /\ UNCHANGED slice_args

NextClosest == ClosestPointOnSegment

SpecClosest == InitClosest /\ [][NextClosest]_vars

---------------------------------------------------------------------------
(* LinearEquation: orthogonal_at_point and project_onto called on a line    *)
(* and a point                                                              *)

\* the lines through the end points of the grid segments that are vertical,
\* horizontal or diagonal
Equations == { from_2_points(l[1], l[2]) : l \in SegmentsA }

NoResult == [orthogonal |-> <<>>, projected |-> <<>>]

InitEquation ==
    /\ equation \in Equations
    /\ arg_point \in GridPoints
    /\ ret = NoResult
    /\ self_shape = <<>>
    /\ other_shape = <<>>
    /\ line_a = NoLine
    /\ NoLineCall
    /\ NoTracker
    /\ NoMapOrSlice

\* equation.orthogonal_at_point(arg_point.x, arg_point.y)
OrthogonalAtPoint ==
    /\ ret.orthogonal = <<>>
    /\ ret' = [ret EXCEPT !.orthogonal =
                   <<orthogonal_at_point(equation, arg_point[1], arg_point[2])>>]
    /\ UNCHANGED <<equation, arg_point, self_shape, other_shape>>
    /\ UNCHANGED line_vars
    /\ UNCHANGED los_vars
    /\ UNCHANGED lru_vars
    /\ UNCHANGED slice_args

\* equation.project_onto(arg_point.x, arg_point.y)
ProjectOnto ==
    /\ ret.projected = <<>>
    /\ ret' = [ret EXCEPT !.projected =
                   <<project_onto(equation, arg_point[1], arg_point[2])>>]
    /\ UNCHANGED <<equation, arg_point, self_shape, other_shape>>
    /\ UNCHANGED line_vars
    /\ UNCHANGED los_vars
    /\ UNCHANGED lru_vars
    /\ UNCHANGED slice_args

NextEquation == OrthogonalAtPoint \/ ProjectOnto

SpecEquation == InitEquation /\ [][NextEquation]_vars

---------------------------------------------------------------------------
(* Polygon2D<N> and Triangle2D: edges, resize and == called on shapes        *)

\* the capacity N of the polygons
PolyN == 3

\* the points of the shapes; (0, 0) and (-0, 0) are equal points
ShapePoints == {Pt(0, 0), Point2D(NZero, PZero), Pt(1, 0)}

\* every list of at most PolyN points
Shapes == UNION { [1..n -> ShapePoints] : n \in 0..PolyN }

NoShapeCall == [op |-> "none", m |-> 0, value |-> <<>>]

InitShape ==
    /\ self_shape \in Shapes
    /\ other_shape \in Shapes
    /\ ret = NoShapeCall
    /\ equation = <<>>
    /\ arg_point = <<>>
    /\ line_a = NoLine
    /\ NoLineCall
    /\ NoTracker
    /\ NoMapOrSlice

\* the call op returned value
ShapeReturn(op, m, value) ==
    /\ ret' = [op |-> op, m |-> m, value |-> value]
    /\ UNCHANGED <<equation, arg_point, self_shape, other_shape>>
    /\ UNCHANGED line_vars
    /\ UNCHANGED los_vars
    /\ UNCHANGED lru_vars
    /\ UNCHANGED slice_args

\* Polygon2D { points: self_shape }.edges()
PolygonEdges ==
    /\ ret.op = "none"
    /\ ShapeReturn("polygon_edges", 0, polygon_edges(self_shape))

\* Triangle2D { points: self_shape }.edges()
TriangleEdges ==
    /\ ret.op = "none"
    /\ Len(self_shape) = 3
    /\ ShapeReturn("triangle_edges", 0, triangle_edges(self_shape))

\* Polygon2D::<PolyN> { points: self_shape }.resize::<M>()
Resize(M) ==
    /\ ret.op = "none"
    /\ ShapeReturn("resize", M, resize(self_shape, M))

\* Polygon2D::<PolyN> { points: self_shape } == Polygon2D::<PolyN> { points: other_shape }
PolygonEq ==
    /\ ret.op = "none"
    /\ ShapeReturn("eq", 0, polygon_eq(PolyN, self_shape, other_shape))

NextShape ==
    \/ PolygonEdges
    \/ TriangleEdges
    \/ \E M \in 0..(PolyN + 1) : Resize(M)
    \/ PolygonEq

SpecShape == InitShape /\ [][NextShape]_vars

---------------------------------------------------------------------------
(* convex_hull called on a shape, and on the points of two shapes           *)

\* the most points of the first shape
HullLen == 4

\* the points of the shapes: three on each side of a triangle
HullPoints == {Pt(0, 0), Pt(1, 0), Pt(2, 0), Pt(0, 1), Pt(1, 1), Pt(0, 2)}

Square == <<Pt(0, 0), Pt(4, 0), Pt(4, 4), Pt(0, 4)>>

Triple == <<Pt(8, 10), Pt(7, 12), Pt(5, 9)>>

\* a first shape of 3 to HullLen points with a second shape of one point, and the
\* square with the three points beyond it
HullInputs ==
    { <<a, b>> : a \in UNION { [1..n -> HullPoints] : n \in 3..HullLen },
                 b \in [1..1 -> HullPoints] }
        \cup {<<Square, Triple>>}

NoHullCall == [op |-> "none", input |-> <<>>, value |-> <<>>]

HullShapes(input) ==
    /\ self_shape = input[1]
    /\ other_shape = input[2]
    /\ ret = NoHullCall
    /\ equation = <<>>
    /\ arg_point = <<>>
    /\ line_a = NoLine
    /\ NoLineCall
    /\ NoTracker
    /\ NoMapOrSlice

InitHull == \E input \in HullInputs : HullShapes(input)

\* the call op on the points input returned value
HullReturn(op, input, value) ==
    /\ ret' = [op |-> op, input |-> input, value |-> value]
    /\ UNCHANGED <<equation, arg_point, self_shape, other_shape>>
    /\ UNCHANGED line_vars
    /\ UNCHANGED los_vars
    /\ UNCHANGED lru_vars
    /\ UNCHANGED slice_args

\* convex_hull(self_shape)
ConvexHull ==
    /\ ret.op = "none"
    /\ HullReturn("convex_hull", self_shape, convex_hull(self_shape))

\* self_shape.convex_hull_with_other_shape(&other_shape)
ConvexHullWithOtherShape ==
    /\ ret.op = "none"
    /\ HullReturn("convex_hull_with_other_shape", self_shape \o other_shape,
                  convex_hull_with_other_shape(self_shape, other_shape))

NextHull == ConvexHull \/ ConvexHullWithOtherShape

SpecHull == InitHull /\ [][NextHull]_vars

---------------------------------------------------------------------------
(* LruMap as a state machine: constructed by new, then insert and get        *)

\* number of insert and get calls made on one map; next_operation is a usize that a
\* map cannot exhaust in the calls made here
MaxOps == 5

Keys == 1..3

Values == {"one", "two"}

\* the order of access after the entry at index i (0: none) was removed: it is dropped
\* and the indices behind it move down by one
Forget(order, i) ==
    IF i = 0 THEN order
    ELSE [n \in 1..Len(SelectSeq(order, LAMBDA x : x # i)) |->
             IF SelectSeq(order, LAMBDA x : x # i)[n] > i
             THEN SelectSeq(order, LAMBDA x : x # i)[n] - 1
             ELSE SelectSeq(order, LAMBDA x : x # i)[n]]

\* the order of access after the entry at index i was accessed: it is the most recent
Touch(order, i) == Append(SelectSeq(order, LAMBDA x : x # i), i)

\* no rotate_slice, Line2D, shape or tracker call is involved
NoOtherCall ==
    /\ slice_args = <<>>
    /\ equation = <<>>
    /\ arg_point = <<>>
    /\ self_shape = <<>>
    /\ other_shape = <<>>
    /\ line_a = NoLine
    /\ NoLineCall
    /\ NoTracker

\* LruMap::new
InitLru ==
    /\ data = <<>>
    /\ next_operation = 0
    /\ recency = <<>>
    /\ ret = [op |-> "new", key |-> 0, value |-> "", before |-> <<>>, oldest |-> 0,
              result |-> None]
    /\ NoOtherCall

\* the map after insert(key, value) returned r
InsertReturn(key, value, r) ==
    /\ data' = r.data
    /\ next_operation' = r.next_operation
    /\ panicked' = r.panicked
    /\ recency' = IF r.panicked THEN recency
                  ELSE Append(Forget(recency, r.removed), Len(r.data))
    /\ ret' = [op |-> "insert", key |-> key, value |-> value, before |-> data,
               oldest |-> IF recency = <<>> THEN 0 ELSE recency[1],
               result |-> r.result]
    /\ UNCHANGED <<tracked_fields, target_plane, surface, original_distance, call>>
    /\ UNCHANGED line_vars
    /\ UNCHANGED <<equation, arg_point, self_shape, other_shape>>
    /\ UNCHANGED slice_args

\* the map after get(&key) returned r
GetReturn(key, r) ==
    /\ data' = r.data
    /\ next_operation' = r.next_operation
    /\ recency' = IF r.hit = 0 THEN recency ELSE Touch(recency, r.hit)
    /\ ret' = [op |-> "get", key |-> key, value |-> "", before |-> data,
               oldest |-> IF recency = <<>> THEN 0 ELSE recency[1],
               result |-> r.result]
    /\ UNCHANGED los_vars
    /\ UNCHANGED line_vars
    /\ UNCHANGED <<equation, arg_point, self_shape, other_shape>>
    /\ UNCHANGED slice_args

Insert(key, value) ==
    /\ ~panicked
    /\ next_operation < MaxOps
    /\ InsertReturn(key, value, insert(data, next_operation, key, value))

Get(key) ==
    /\ ~panicked
    /\ next_operation < MaxOps
    /\ GetReturn(key, get(data, next_operation, key))

NextLru ==
    \/ \E key \in Keys, value \in Values : Insert(key, value)
    \/ \E key \in Keys : Get(key)

SpecLru == InitLru /\ [][NextLru]_vars

---------------------------------------------------------------------------
(* rotate_slice called once on each choice of arguments                      *)

\* longest source
SliceLen == 3

Sources == UNION { [1..n -> {"t", "e"}] : n \in 1..SliceLen }

SliceArgs ==
    [source : Sources, frame : 0..UsizeMax, step : 1..UsizeMax, width : 0..UsizeMax]

NoSliceCall == [op |-> "none", checked |-> FALSE, value |-> <<>>]

InitSlice ==
    /\ slice_args \in SliceArgs
    /\ ret = NoSliceCall
    /\ NoLruMap
    /\ equation = <<>>
    /\ arg_point = <<>>
    /\ self_shape = <<>>
    /\ other_shape = <<>>
    /\ line_a = NoLine
    /\ NoLineCall
    /\ NoTracker

\* rotate_slice(source, frame, step, width) in a build with or without overflow checks
RotateSlice(checked) ==
    /\ ret.op = "none"
    /\ ret' = [op |-> "rotate_slice", checked |-> checked,
               value |-> rotate_slice(slice_args.source, slice_args.frame,
                                      slice_args.step, slice_args.width, checked)]
    /\ UNCHANGED <<equation, arg_point, self_shape, other_shape>>
    /\ UNCHANGED line_vars
    /\ UNCHANGED los_vars
    /\ UNCHANGED lru_vars
    /\ UNCHANGED slice_args

NextSlice == \E checked \in BOOLEAN : RotateSlice(checked)

SpecSlice == InitSlice /\ [][NextSlice]_vars

---------------------------------------------------------------------------
(* Triangle2D::point_in_shape called once on each triangle and point         *)

\* the triangles with their corners on the grid, flat ones included
Triangles == [1..3 -> GridPoints]

NoTriangleCall == [op |-> "none", value |-> FALSE]

InitTriangle ==
    /\ self_shape \in Triangles
    /\ arg_point \in GridPoints
    /\ ret = NoTriangleCall
    /\ equation = <<>>
    /\ other_shape = <<>>
    /\ line_a = NoLine
    /\ NoLineCall
    /\ NoTracker
    /\ NoMapOrSlice

\* Triangle2D { points: self_shape }.point_in_shape(arg_point)
TrianglePointInShape ==
    /\ ret.op = "none"
    /\ ret' = [op |-> "point_in_shape",
               value |-> triangle_point_in_shape(self_shape, arg_point)]
    /\ UNCHANGED <<equation, arg_point, self_shape, other_shape>>
    /\ UNCHANGED line_vars
    /\ UNCHANGED los_vars
    /\ UNCHANGED lru_vars
    /\ UNCHANGED slice_args

NextTriangle == TrianglePointInShape

SpecTriangle == InitTriangle /\ [][NextTriangle]_vars

---------------------------------------------------------------------------
(* FieldOfView as a state machine: constructed by new, then block_view       *)

\* the tracker constructed by FieldOfView::new, which has no original_distance
InitFovTracker(fov) ==
    /\ tracked_fields = fov.tracked_fields
    /\ target_plane = fov.target_plane
    /\ surface = fov.surface
    /\ original_distance = PZero
    /\ panicked = fov.panicked
    /\ call = [op |-> "new", other |-> <<>>, result |-> "none", before |-> 0,
               pieces |-> <<>>, fields |-> <<>>, checked |-> FALSE, underflow |-> FALSE]
    /\ line_a = NoLine
    /\ line_b = NoLine
    /\ line_out = NoCall
    /\ NoArgs
    /\ NoMapOrSlice

InitFov == \E arr \in Arrangements : InitFovTracker(FovNew(arr.source, arr.target))

\* the tracker after a call of block_view that returned r
FovBlockViewReturn(other, checked, r) ==
    /\ tracked_fields' = r.fields
    /\ panicked' = r.panicked
    /\ call' = [op |-> "block_view", other |-> other, result |-> r.result,
                before |-> Len(tracked_fields), pieces |-> r.pieces,
                fields |-> tracked_fields, checked |-> checked,
                underflow |-> r.underflow]
    /\ UNCHANGED <<target_plane, surface, original_distance>>
    /\ UNCHANGED line_vars
    /\ UNCHANGED fn_vars
    /\ UNCHANGED lru_vars
    /\ UNCHANGED slice_args

\* block_view(&other) in a build with or without overflow checks
FovBlockView(other, checked) ==
    /\ ~panicked
    /\ FovBlockViewReturn(other, checked,
                          fov_block_view(tracked_fields, target_plane, surface, other,
                                         checked))

NextFov == \E other \in Obstacles, checked \in BOOLEAN : FovBlockView(other, checked)

SpecFov == InitFov /\ [][NextFov]_vars

---------------------------------------------------------------------------
(* Properties of the tracker                                                *)

\* no vertex of the obstacle lies inside the surface
NoVertexInSurface(other) == \A i \in 1..Len(other) : ~point_in_shape(surface, other[i])

\* C1: once tracked_fields is empty (totally_blocked() is true), every block_view
\* call, with any obstacle, returns Err and leaves tracked_fields, target_plane,
\* surface and original_distance unchanged: the blocked state is terminal.
C1_BlockedIsTerminal ==
    [][totally_blocked(tracked_fields) =>
          /\ call'.op = "block_view"
          /\ call'.result = "Err"
          /\ UNCHANGED <<tracked_fields, target_plane, surface, original_distance>>]_vars

\* a call made on a blocked tracker has returned, for an obstacle with a vertex in the
\* surface
C1_CallOnBlockedTracker ==
    /\ totally_blocked(tracked_fields)
    /\ call.op = "block_view"
    /\ call.before = 0
    /\ call.result = "Err"
    /\ ~NoVertexInSurface(call.other)

\* C2: in the visible state, block_view with an obstacle none of whose vertices lies
\* inside the surface returns Ok and leaves tracked_fields (content and order) and
\* every other field of the tracker unchanged.
C2_ObstacleOutsideSurfaceIgnored ==
    [][(~totally_blocked(tracked_fields) /\ NoVertexInSurface(call'.other)) =>
          /\ call'.result = "Ok"
          /\ UNCHANGED <<tracked_fields, target_plane, surface, original_distance>>]_vars

\* such a call has returned, for an obstacle whose projection covers the tracked fields
C2_IgnoredObstacleSeen ==
    /\ ~totally_blocked(tracked_fields)
    /\ call.op = "block_view"
    /\ call.result = "Ok"
    /\ call.other = Behind
    /\ NoVertexInSurface(call.other)
    /\ Len(tracked_fields) = SZ

\* C3: after new and any sequence of block_view calls, tracked_fields.len() <= SZ,
\* and every call completes with Ok or Err, a call whose pass produces more pieces
\* than there are slots included: no panic, no capacity error.
C3_CapacityNeverExceeded ==
    /\ Len(tracked_fields) <= SZ
    /\ ~panicked
    /\ call.op = "block_view" => call.result \in {"Ok", "Err"}

\* a pass that produced more pieces than there are slots has completed
C3_PassOverCapacitySeen ==
    /\ call.op = "block_view"
    /\ Len(call.pieces) > SZ
    /\ call.result = "Ok"
    /\ Len(tracked_fields) = SZ

Count(s, v) == Cardinality({i \in 1..Len(s) : s[i] = v})

Min(a, b) == IF a < b THEN a ELSE b

\* kept holds Min(SZ, number of pieces) of the pieces, none more often than the pass
\* produced it, and no piece left out is longer than one kept
KeepsLargest(kept, pieces) ==
    /\ Len(kept) = Min(SZ, Len(pieces))
    /\ \A i \in 1..Len(kept) : Count(kept, kept[i]) <= Count(pieces, kept[i])
    /\ \A i \in 1..Len(pieces) :
           Count(kept, pieces[i]) < Count(pieces, pieces[i]) =>
               \A j \in 1..Len(kept) :
                   FLe(length_manhattan(pieces[i]), length_manhattan(kept[j]))

\* C4: each second piece queued by a split is appended if tracked_fields is not full;
\* if it is full it replaces the field of smallest Manhattan length only when it is
\* strictly longer, and is dropped otherwise.  So after a call whose pass ran, the
\* lengths of the tracked fields are the SZ largest lengths among all the pieces
\* produced by the pass.
C4_EvictionKeepsLargest ==
    (call.op = "block_view" /\ call.before > 0 /\ ~NoVertexInSurface(call.other)) =>
        KeepsLargest(tracked_fields, call.pieces)

\* a full tracker after a pass that produced more pieces than slots: a piece was
\* replaced or dropped, and the fields kept have different lengths
C4_EvictionSeen ==
    /\ call.op = "block_view"
    /\ Len(call.pieces) = SZ + 1
    /\ Len(tracked_fields) = SZ
    /\ \E i, j \in 1..Len(tracked_fields) :
           FLt(length_manhattan(tracked_fields[i]), length_manhattan(tracked_fields[j]))

\* the visible window computed at construction: new stores its two end points as the
\* first two corners of surface
Window == Line2D(surface[1], surface[2])

\* p lies on the segment w
InSegment(p, w) ==
    /\ PLe(earlier(w), p)
    /\ PLe(p, later(w))
    /\ FEq(FMul(FSub(p[1], earlier(w)[1]), FSub(later(w)[2], earlier(w)[2])),
           FMul(FSub(p[2], earlier(w)[2]), FSub(later(w)[1], earlier(w)[1])))

SubSegment(f, w) == InSegment(f[1], w) /\ InSegment(f[2], w)

\* f and g share at most an end point
ShareAtMostEndpoint(f, g) == PLe(later(f), earlier(g)) \/ PLe(later(g), earlier(f))

FieldsDisjointInWindow ==
    /\ \A i \in 1..Len(tracked_fields) : SubSegment(tracked_fields[i], Window)
    /\ \A i, j \in 1..Len(tracked_fields) :
           i < j => ShareAtMostEndpoint(tracked_fields[i], tracked_fields[j])

\* C5: in every state reachable from new by block_view calls, the tracked fields are
\* pairwise non-overlapping (any two share at most a single end point) and each is a
\* sub-segment of the visible window computed at construction.
C5_FieldsDisjointInWindow == ~panicked => FieldsDisjointInWindow

\* the same for the trackers whose window new computed as a segment of numbers: only
\* a window with a NaN coordinate (source and target on one row or column) fails C5
C5_HoldsForNumericWindow ==
    (\A i \in 1..2 : ~IsNaN(Window[i][1]) /\ ~IsNaN(Window[i][2])) => FieldsDisjointInWindow

\* the projection of the obstacle covers every tracked field
CoversEveryField(other) ==
    \A proj \in {project_onto_plane(other, target_plane)} :
        \A i \in 1..Len(tracked_fields) :
            /\ PLe(earlier(proj), earlier(tracked_fields[i]))
            /\ PLe(later(tracked_fields[i]), later(proj))

\* Err exactly when no field is left, Ok exactly when one is
ResultTellsBlocked ==
    /\ call'.result = "Err" <=> totally_blocked(tracked_fields')
    /\ call'.result = "Ok" <=> ~totally_blocked(tracked_fields')

\* C6 as stated: block_view returns Err if and only if tracked_fields is empty when the
\* call returns, Ok if and only if a field remains; so an obstacle whose projection
\* covers every tracked field makes the call return Err and totally_blocked() true.
C6_CoveringObstacleBlocks ==
    [][/\ ResultTellsBlocked
       /\ CoversEveryField(call'.other) =>
              call'.result = "Err" /\ totally_blocked(tracked_fields')]_vars

\* C6 amended: block_view returns Err if and only if tracked_fields is empty when the
\* call returns, Ok if and only if a field remains; so an obstacle with a vertex inside
\* the surface whose projection covers every tracked field makes the call return Err
\* and totally_blocked() true.
C6_CoveringObstacleInSurfaceBlocks ==
    [][/\ ResultTellsBlocked
       /\ (CoversEveryField(call'.other) /\ ~NoVertexInSurface(call'.other)) =>
              call'.result = "Err" /\ totally_blocked(tracked_fields')]_vars

\* a visible tracker has just been blocked by one obstacle that covers the window
C6_BlockedByCoveringObstacle ==
    /\ call.op = "block_view"
    /\ call.before > 0
    /\ call.result = "Err"
    /\ totally_blocked(tracked_fields)
    /\ ~NoVertexInSurface(call.other)
    /\ PLe(earlier(project_onto_plane(call.other, target_plane)), earlier(Window))
    /\ PLe(later(Window), later(project_onto_plane(call.other, target_plane)))

\* C7: in every reachable state partially_blocked() is false if and only if exactly
\* one tracked field remains and its Manhattan length equals original_distance.
C7_PartiallyBlockedIff ==
    ~panicked =>
        (~partially_blocked(tracked_fields, original_distance) <=>
            /\ Len(tracked_fields) = 1
            /\ FEq(length_manhattan(tracked_fields[1]), original_distance))

\* only a NaN original_distance fails C7
C7_HoldsForNumericDistance ==
    ~IsNaN(original_distance) =>
        (~partially_blocked(tracked_fields, original_distance) <=>
            /\ Len(tracked_fields) = 1
            /\ FEq(length_manhattan(tracked_fields[1]), original_distance))

\* C8: right after new(source, target), tracked_fields holds exactly one segment, the
\* overlap of the target's projection with the source's projection on the target
\* plane, original_distance equals its Manhattan length, and totally_blocked() and
\* partially_blocked() are false.
C8_NewTracker ==
    call.op = "new" =>
        /\ ~panicked
        /\ Len(tracked_fields) = 1
        /\ \E arr \in Arrangements :
               tracked_fields = overlap(project_onto_plane(arr.target, target_plane),
                                        project_onto_plane(arr.source, target_plane))
        /\ FEq(original_distance, length_manhattan(tracked_fields[1]))
        /\ ~totally_blocked(tracked_fields)
        /\ ~partially_blocked(tracked_fields, original_distance)

\* only a NaN original_distance fails C8
C8_HoldsForNumericDistance == ~IsNaN(original_distance) => C8_NewTracker

---------------------------------------------------------------------------
(* Properties of Line2D                                                     *)

BothCalled == line_out.overlap # <<>> /\ line_out.subtract # <<>>

\* the segments returned: the pieces of subtract and the overlap, when Some
Returned == line_out.subtract[1][1] \o line_out.subtract[1][2] \o line_out.overlap[1]

\* in the order ord the segments of segs follow one another from the earlier to the
\* later end point of a, each starting where the one before ended, all of them on a
ChainAlong(segs, ord, a) ==
    /\ PEq(earlier(segs[ord[1]]), earlier(a))
    /\ PEq(later(segs[ord[Len(segs)]]), later(a))
    /\ \A i \in 1..Len(segs) : SubSegment(segs[i], a)
    /\ \A i \in 1..(Len(segs) - 1) : PEq(later(segs[ord[i]]), earlier(segs[ord[i + 1]]))

\* C9: for segments A and B, the pieces returned by A.subtract(B) together with
\* A.overlap(B) (when it is Some) cover exactly A: put end to end they run from A's
\* earlier to A's later end point inside A, so their union is A and two of them share
\* at most an end point.
C9_PiecesAndOverlapCoverSelf ==
    BothCalled =>
        /\ Returned # <<>>
        /\ \E ord \in Permutations(1..Len(Returned)) : ChainAlong(Returned, ord, line_a)

\* a split: two pieces and the overlap between them
C9_SplitSeen ==
    /\ BothCalled
    /\ Len(Returned) = 3
    /\ FGt(length_manhattan(line_out.overlap[1][1]), PZero)

\* subtract returned (None, None)
NoPieces == line_out.subtract[1] = <<None, None>>

\* the overlap is Some segment with the end points of A
OverlapSpansSelf ==
    /\ line_out.overlap[1] # None
    /\ PEq(earlier(line_out.overlap[1][1]), earlier(line_a))
    /\ PEq(later(line_out.overlap[1][1]), later(line_a))

\* A lies between the projections of the two end points of B onto A's line
ProjectionContainsSelf ==
    \A plane \in {from_2_points(line_a[1], line_a[2])} :
        \A p \in {project_onto(plane, line_b[1][1], line_b[1][2])} :
            \A q \in {project_onto(plane, line_b[2][1], line_b[2][2])} :
                \/ PLe(p, earlier(line_a)) /\ PLe(later(line_a), q)
                \/ PLe(q, earlier(line_a)) /\ PLe(later(line_a), p)

\* C10: A.subtract(B) returns (None, None) if and only if A.overlap(B) is Some segment
\* whose earlier and later end points equal those of A; e.g. whenever B's projection
\* contains A.
C10_NoPiecesIffOverlapSpansSelf ==
    BothCalled =>
        /\ NoPieces <=> OverlapSpansSelf
        /\ ProjectionContainsSelf => NoPieces

\* the equivalence alone holds; the example fails where overlap returns None
C10_EquivalenceHolds ==
    BothCalled =>
        /\ NoPieces <=> OverlapSpansSelf
        /\ (ProjectionContainsSelf /\ line_out.overlap[1] # None) => NoPieces

\* both orders of overlap have been called
BothOrdersCalled == line_out.overlap # <<>> /\ line_out.reverse # <<>>

\* two results of overlap hold the same points: both None, or Some of segments with
\* equal earlier and equal later end points
SameContent(o1, o2) ==
    \/ o1 = None /\ o2 = None
    \/ /\ o1 # None
       /\ o2 # None
       /\ PEq(earlier(o1[1]), earlier(o2[1]))
       /\ PEq(later(o1[1]), later(o2[1]))

\* C11: for any two segments A and B, A.overlap(B) and B.overlap(A) are either both
\* None or both Some of the same segment (identical set of points), whatever the
\* argument order.
C11_OverlapSymmetric ==
    BothOrdersCalled => SameContent(line_out.overlap[1], line_out.reverse[1])

\* r is on the line through the distinct end points of l
OnLineOf(l, r) ==
    FEq(FMul(FSub(l[2][1], l[1][1]), FSub(r[2], l[1][2])),
        FMul(FSub(l[2][2], l[1][2]), FSub(r[1], l[1][1])))

\* A and B are segments of one line that is not horizontal
OnOneSlantedLine ==
    /\ ~PEq(line_a[1], line_a[2])
    /\ ~PEq(line_b[1], line_b[2])
    /\ OnLineOf(line_a, line_b[1])
    /\ OnLineOf(line_a, line_b[2])
    /\ FNe(line_a[1][2], line_a[2][2])

\* the two orders agree for two segments of one line, unless the line is horizontal
C11_HoldsOnOneSlantedLine ==
    (BothOrdersCalled /\ OnOneSlantedLine) =>
        SameContent(line_out.overlap[1], line_out.reverse[1])

\* the foot of the perpendicular from r on the line through the distinct end points of
\* l: l[1] + t (l[2] - l[1]) with t = (r - l[1]).(l[2] - l[1]) / |l[2] - l[1]|^2
Foot(l, r) ==
    LET abx == FSub(l[2][1], l[1][1])
        aby == FSub(l[2][2], l[1][2])
        t == FDiv(FAdd(FMul(FSub(r[1], l[1][1]), abx), FMul(FSub(r[2], l[1][2]), aby)),
                  FAdd(FMul(abx, abx), FMul(aby, aby)))
    IN  Point2D(FAdd(l[1][1], FMul(abx, t)), FAdd(l[1][2], FMul(aby, t)))

PMax(p, q) == IF PGt(p, q) THEN p ELSE q

PMin(p, q) == IF PLt(p, q) THEN p ELSE q

\* the intersection of A with the interval spanned by the projections of B's two end
\* points on A's line: it runs from IntersectionStart to IntersectionEnd, and is empty
\* when the start comes after the end
IntersectionStart ==
    PMax(earlier(line_a), PMin(Foot(line_a, line_b[1]), Foot(line_a, line_b[2])))

IntersectionEnd ==
    PMin(later(line_a), PMax(Foot(line_a, line_b[1]), Foot(line_a, line_b[2])))

\* A.overlap(B) has been called on a segment A with distinct end points
OverlapCalled == line_out.overlap # <<>> /\ ~PEq(line_a[1], line_a[2])

\* C12: overlap returns None whenever the intersection of self with other's projection
\* is empty in the sense start >= end; in particular, when the projection only touches
\* self at a single point (start == end) the result is None, not a zero-length segment.
C12_NoneWhenStartNotBeforeEnd ==
    (OverlapCalled /\ PLe(IntersectionEnd, IntersectionStart)) => line_out.overlap[1] = None

\* with start > end in place of start >= end the result is None, unless A is horizontal
C12_NoneWhenStartAfterEnd ==
    (/\ OverlapCalled
     /\ FNe(line_a[1][2], line_a[2][2])
     /\ PLt(IntersectionEnd, IntersectionStart)) => line_out.overlap[1] = None

\* the result of A.overlap(B) is the segment from IntersectionStart to IntersectionEnd
OverlapIsIntersection ==
    /\ line_out.overlap[1] # None
    /\ PEq(earlier(line_out.overlap[1][1]), IntersectionStart)
    /\ PEq(later(line_out.overlap[1][1]), IntersectionEnd)

\* C13: for any segment self and any other, self.overlap(other) is the intersection of
\* self with the interval spanned by the perpendicular projections of other's two end
\* points onto self's line; it is Some whenever that projected interval shares more
\* than one point with self, regardless of which end point of other (earlier or later
\* in Point order) projects first along self.
C13_OverlapIsProjectedIntersection ==
    OverlapCalled =>
        /\ PLt(IntersectionStart, IntersectionEnd) => OverlapIsIntersection
        /\ line_out.overlap[1] # None => OverlapIsIntersection

\* the same when A is not horizontal and B's earlier end point does not project after
\* its later one
C13_HoldsWhenProjectedInOrder ==
    (/\ OverlapCalled
     /\ FNe(line_a[1][2], line_a[2][2])
     /\ PLe(Foot(line_a, earlier(line_b)), Foot(line_a, later(line_b)))) =>
        /\ PLt(IntersectionStart, IntersectionEnd) => OverlapIsIntersection
        /\ line_out.overlap[1] # None => OverlapIsIntersection

\* the head (A.earlier, diff.earlier) and the tail (diff.later, A.later) of A around
\* the overlap diff
HeadPiece(diff) == Line2D(earlier(line_a), earlier(diff))

TailPiece(diff) == Line2D(later(diff), later(line_a))

\* what subtract has to return for the overlap diff, an Option<Line2D>
PiecesFor(diff) ==
    IF diff = None THEN {<<Some(line_a), None>>}
    ELSE LET shares_start == PEq(earlier(diff[1]), earlier(line_a))
             shares_end == PEq(later(diff[1]), later(line_a))
         IN  IF shares_start /\ ~shares_end THEN {<<Some(TailPiece(diff[1])), None>>}
             ELSE IF ~shares_start /\ shares_end THEN {<<Some(HeadPiece(diff[1])), None>>}
             ELSE IF ~shares_start /\ ~shares_end
                  THEN {<<Some(HeadPiece(diff[1])), Some(TailPiece(diff[1]))>>}
             ELSE {<<None, None>>, <<Some(line_a), None>>,
                   <<Some(HeadPiece(diff[1])), None>>, <<Some(TailPiece(diff[1])), None>>,
                   <<Some(HeadPiece(diff[1])), Some(TailPiece(diff[1]))>>}

---------------------------------------------------------------------------
(* Properties of closest_point_on_segment                                   *)

\* C15: closest_point_on_segment on a degenerate segment (both end points equal, so
\* dot(b-a, b-a) == 0) returns a defined fallback point (the end point a) and never
\* performs a division by zero.
C15_DegenerateGivesEndpoint ==
    (ret # <<>> /\ PEq(line_a[1], line_a[2])) =>
        /\ ~IsNaN(ret[1][1])
        /\ ~IsNaN(ret[1][2])
        /\ PEq(ret[1], line_a[1])

\* on a segment with distinct end points the result is a point of the segment, and no
\* end point is closer to the argument
C15_HoldsForDistinctEndpoints ==
    (ret # <<>> /\ ~PEq(line_a[1], line_a[2])) =>
        /\ InSegment(ret[1], line_a)
        /\ \A i \in 1..2 :
               FLe(dot(PSub(ret[1], arg_point), PSub(ret[1], arg_point)),
                   dot(PSub(line_a[i], arg_point), PSub(line_a[i], arg_point)))

---------------------------------------------------------------------------
(* Properties of LinearEquation                                             *)

BothReturned == ret.orthogonal # <<>> /\ ret.projected # <<>>

Horizontal == equation.k = "Slope" /\ IsZero(equation.a)

\* C16: for a horizontal line (Slope with a = 0, y = b), project_onto(x, y) returns
\* the foot of the perpendicular (x, b): orthogonal_at_point yields the vertical line
\* through x and no division by zero occurs on the way.
C16_HorizontalProjectsToFoot ==
    (BothReturned /\ Horizontal) =>
        /\ PEq(ret.projected[1], Point2D(arg_point[1], equation.b))
        /\ ret.orthogonal[1] = Vertical(arg_point[1])

\* q is the foot of the perpendicular from p on the line eq
IsFoot(eq, p, q) ==
    IF eq.k = "Vertical" THEN FEq(q[1], eq.a) /\ FEq(q[2], p[2])
    ELSE /\ FEq(q[2], y(eq, q[1]))
         /\ FEq(FAdd(FSub(p[1], q[1]), FMul(eq.a, FSub(p[2], q[2]))), PZero)

\* on the lines that are not horizontal project_onto returns the foot
C16_HoldsOffHorizontal ==
    (BothReturned /\ ~Horizontal) => IsFoot(equation, arg_point, ret.projected[1])

---------------------------------------------------------------------------
(* Properties of the shapes                                                 *)

\* the n consecutive pairs (p_i, p_((i+1) mod n)) of the points, in order
ConsecutivePairs(points, edges) ==
    /\ Len(edges) = Len(points)
    /\ \A i \in 1..Len(points) :
           /\ edges[i][1] = points[i]
           /\ edges[i][2] = points[IF i = Len(points) THEN 1 ELSE i + 1]

\* C17: edges() of a shape with vertices p0..p(n-1) returns exactly the n consecutive
\* pairs (p_i, p_((i+1) mod n)), wrapping from the last vertex to the first; for a
\* Triangle this is (p0,p1), (p1,p2), (p2,p0).
C17_EdgesAreConsecutivePairs ==
    ret.op \in {"polygon_edges", "triangle_edges"} => ConsecutivePairs(self_shape, ret.value)

\* the edges of a Polygon2D are the consecutive pairs
C17_HoldsForPolygon ==
    ret.op = "polygon_edges" => ConsecutivePairs(self_shape, ret.value)

\* C18: Polygon2D<N>::resize::<M>() returns Err when the polygon has more than M
\* points (no silent truncation), and otherwise returns Ok with a polygon holding the
\* same points in the same order.
C18_ResizeErrOrSamePoints ==
    ret.op = "resize" =>
        IF Len(self_shape) > ret.m THEN ret.value = Err
        ELSE ret.value.ok /\ ret.value.value = self_shape

\* a polygon with one point more than M has been refused
C18_TooManyPointsRefused ==
    /\ ret.op = "resize"
    /\ Len(self_shape) = ret.m + 1
    /\ ret.value = Err

\* there is a bijection between the points of a and b that pairs equal points
EqualAsMultisets(a, b) ==
    /\ Len(a) = Len(b)
    /\ \E f \in Permutations(1..Len(a)) : \A i \in 1..Len(a) : PEq(a[i], b[f[i]])

\* C19: for any two Polygon2D<N> values holding any number of points up to N, ==
\* returns true exactly when there is a bijection between their points pairing equal
\* points (equal as multisets, regardless of vertex order), and the comparison always
\* returns a result.
C19_EqIsBijection ==
    ret.op = "eq" =>
        /\ ret.value \in {"true", "false"}
        /\ ret.value = "true" <=> EqualAsMultisets(self_shape, other_shape)

\* the same for two polygons that hold N points each
C19_HoldsForFullPolygons ==
    (ret.op = "eq" /\ Len(self_shape) = PolyN /\ Len(other_shape) = PolyN) =>
        /\ ret.value \in {"true", "false"}
        /\ ret.value = "true" <=> EqualAsMultisets(self_shape, other_shape)

---------------------------------------------------------------------------
(* Properties of convex_hull                                                *)

PointsOf(points) == { points[i] : i \in 1..Len(points) }

\* the integer coordinates of a point of the shapes
XOf(p) == p[1][1]

YOf(p) == p[2][1]

\* twice the signed area of the triangle a, b, c: positive when it turns left
Turn(a, b, c) ==
    (XOf(b) - XOf(a)) * (YOf(c) - YOf(a)) - (YOf(b) - YOf(a)) * (XOf(c) - XOf(a))

\* p is on the segment from a to b
Between(p, a, b) ==
    /\ Turn(a, b, p) = 0
    /\ (XOf(a) - XOf(p)) * (XOf(b) - XOf(p)) + (YOf(a) - YOf(p)) * (YOf(b) - YOf(p)) <= 0

\* p is inside or on the triangle a, b, c, which may be flat
InTriangle(p, a, b, c) ==
    IF Turn(a, b, c) = 0
    THEN Between(p, a, b) \/ Between(p, b, c) \/ Between(p, a, c)
    ELSE \/ Turn(a, b, p) >= 0 /\ Turn(b, c, p) >= 0 /\ Turn(c, a, p) >= 0
         \/ Turn(a, b, p) <= 0 /\ Turn(b, c, p) <= 0 /\ Turn(c, a, p) <= 0

\* the extreme points of the set S: those outside every triangle of other points
ExtremePoints(S) ==
    { p \in S : \A a, b, c \in S \ {p} : ~InTriangle(p, a, b, c) }

\* a call of one of the two hull functions on more than 3 points has returned
HullOfManyReturned == ret.op # "none" /\ Len(ret.input) > 3

\* C20: for any input of more than 3 points, convex_hull returns exactly the extreme
\* points of the input (a subset of the input, every input point inside or on the
\* returned polygon, no returned vertex collinear between two others); e.g. the hull
\* of {(0,0),(4,0),(4,4),(0,4)} together with {(8,10),(7,12),(5,9)} has vertex set
\* {(0,0),(4,0),(8,10),(7,12),(0,4)}.
C20_HullIsExtremePoints ==
    HullOfManyReturned =>
        /\ PointsOf(ret.value) = ExtremePoints(PointsOf(ret.input))
        /\ PointsOf(ret.value) \subseteq PointsOf(ret.input)
        /\ \A i \in 1..Len(ret.input) :
               \E a, b, c \in PointsOf(ret.value) : InTriangle(ret.input[i], a, b, c)
        /\ \A p, a, b \in PointsOf(ret.value) : (p # a /\ p # b) => ~Between(p, a, b)
        /\ ret.input = Square \o Triple =>
               PointsOf(ret.value) = {Pt(0, 0), Pt(4, 0), Pt(8, 10), Pt(7, 12), Pt(0, 4)}

\* the hull of the square and the three points has been returned: five vertices, the
\* point (4, 4) of the square and (5, 9) left out
C20_ExampleHullSeen ==
    /\ ret.op = "convex_hull_with_other_shape"
    /\ self_shape = Square
    /\ other_shape = Triple
    /\ Len(ret.value) = 5
    /\ Pt(4, 4) \notin PointsOf(ret.value)

\* each vertex is returned once, unless every point of the input is the same point
C20_VerticesReturnedOnce ==
    (HullOfManyReturned /\ Cardinality(PointsOf(ret.input)) > 1) =>
        Len(ret.value) = Cardinality(PointsOf(ret.value))

---------------------------------------------------------------------------
(* Properties of LruMap                                                     *)

\* the (key, value) pairs of the entries, in the order of data
KeyValues(entries) == [i \in 1..Len(entries) |-> <<entries[i][2], entries[i][3]>>]

\* recency lists every index of data once
RecencyListsData ==
    /\ Len(recency) = Len(data)
    /\ \A i \in 1..Len(data) : \E n \in 1..Len(recency) : recency[n] = i

\* C21: for an LruMap of capacity S >= 1 and any sequence of insert and get calls,
\* len() <= S; insert returns None while the map is not full; insert into a full map
\* removes and returns the entry whose most recent access (its insert or its last
\* successful get) is the oldest, and keeps all other entries.
C21_LruEvictsOldest ==
    /\ len(data) <= LruCap
    /\ ~panicked
    /\ RecencyListsData
    /\ (ret.op = "insert" /\ Len(ret.before) < LruCap) =>
           /\ ret.result = None
           /\ KeyValues(data) = Append(KeyValues(ret.before), <<ret.key, ret.value>>)
    /\ (ret.op = "insert" /\ Len(ret.before) = LruCap) =>
           /\ ret.result = Some(KeyValues(ret.before)[ret.oldest])
           /\ KeyValues(data) = Append(RemoveAt(KeyValues(ret.before), ret.oldest),
                                       <<ret.key, ret.value>>)

\* an insert into a full map has removed an entry that is not the first of data: the
\* entries before it were inserted earlier and accessed by get since
C21_RefreshedEntryOutlives ==
    /\ ret.op = "insert"
    /\ Len(ret.before) = LruCap
    /\ ret.oldest > 1
    /\ ret.result = Some(KeyValues(ret.before)[ret.oldest])
    /\ len(data) = LruCap

\* C30: after any sequence of insert and get calls on an LruMap, no two stored
\* entries have equal keys (inserting a key that is already present does not create a
\* second entry for it).
C30_KeysUnique ==
    \A i, j \in 1..Len(data) : i < j => data[i][2] # data[j][2]

\* while every inserted key is new to the map, get returns the value last inserted
\* for the key
C30_GetReturnsInsertedValue ==
    (ret.op = "get" /\ \A i, j \in 1..Len(ret.before) :
                           i < j => ret.before[i][2] # ret.before[j][2]) =>
        /\ ret.result # None => \E i \in 1..Len(ret.before) :
                                    KeyValues(ret.before)[i] = <<ret.key, ret.result[1]>>
        /\ ret.result = None => \A i \in 1..Len(ret.before) : ret.before[i][2] # ret.key

---------------------------------------------------------------------------
(* Properties of rotate_slice                                               *)

\* the width elements of the cyclic window of source that starts at index start
CyclicWindow(source, start, width) ==
    [k \in 1..width |-> source[((start + k - 1) % Len(source)) + 1]]

\* (frame / step) mod source.len()
WindowStart == (slice_args.frame \div slice_args.step) % Len(slice_args.source)

\* the call returned, and for width <= source.len() it returned the cyclic window
ReturnsWindow ==
    /\ ~ret.value.panicked
    /\ slice_args.width <= Len(slice_args.source) =>
           ret.value.first \o ret.value.second =
               CyclicWindow(slice_args.source, WindowStart, slice_args.width)

\* C23: for any non-empty source, any frame, any step >= 1 and any width >= 0
\* (including width greater than source.len()), rotate_slice returns without an
\* out-of-bounds index or unsigned underflow; and when width <= source.len() the two
\* returned slices concatenated are exactly the width elements of the cyclic window of
\* source starting at index (frame / step) mod source.len().
C23_RotateSliceReturnsWindow == ret.op = "rotate_slice" => ReturnsWindow

\* the same for the calls in which animation_index + width is a usize
C23_HoldsWhenSumFits ==
    (ret.op = "rotate_slice" /\ WindowStart + slice_args.width <= UsizeMax) =>
        ReturnsWindow

---------------------------------------------------------------------------
(* Properties of Triangle2D::point_in_shape                                 *)

\* C26: Triangle2D::point_in_shape(p) returns true exactly when p lies inside (or on
\* the boundary of) the triangle; in particular it returns false for every point
\* strictly outside a non-degenerate triangle.  Stated for the triangles that are not
\* flat.
C26_TrueExactlyInside ==
    (ret.op = "point_in_shape" /\ Turn(self_shape[1], self_shape[2], self_shape[3]) # 0) =>
        (ret.value <=> InTriangle(arg_point, self_shape[1], self_shape[2], self_shape[3]))

\* what the code does: true for every point when the triangle is not flat
C26_TrueForEveryPointOfProperTriangle ==
    (ret.op = "point_in_shape" /\ Turn(self_shape[1], self_shape[2], self_shape[3]) # 0) =>
        ret.value

---------------------------------------------------------------------------
(* Properties of FieldOfView                                                *)

\* C24: in FieldOfView::block_view, when the obstacle's projection fully covers a
\* tracked field, that field is removed and the pass continues with the field that
\* took its place, without the unsigned loop index ever being decremented below zero,
\* including when the removed field is at index 0.
C24_IndexNeverBelowZero ==
    call.op = "block_view" => (~call.underflow /\ call.result # "panic")

\* in a build without overflow checks the index wraps and comes back: the call does to
\* the tracker what LineOfSight::block_view does
C24_WrappingBuildMatchesLineOfSight ==
    [][call'.checked = FALSE =>
          /\ tracked_fields' =
                 block_view(tracked_fields, target_plane, surface, call'.other).fields
          /\ call'.result =
                 block_view(tracked_fields, target_plane, surface, call'.other).result]_vars

\* a removal at an index other than 0 leaves the index in range, in both builds
C24_NoUnderflowBehindIndexZero ==
    [][(tracked_fields # <<>> /\ call'.underflow) =>
          subtract(tracked_fields[1],
                   project_onto_plane(call'.other, target_plane))[1] = None]_vars

---------------------------------------------------------------------------
(* Further properties of the tracker                                        *)

\* the fields of the tracker
TrackerState == <<tracked_fields, target_plane, surface, original_distance>>

Samples == 0..128

\* eight times the x of a point whose x is a multiple of 1/8
XTimes8(p) == (8 * p[1][1]) \div p[1][2]

CoveredAt(f, k) ==
    /\ f[1][1][2] # 0
    /\ f[2][1][2] # 0
    /\ XTimes8(earlier(f)) <= k
    /\ k <= XTimes8(later(f))

\* the samples covered by some field
Cover(fields) == { k \in Samples : \E i \in 1..Len(fields) : CoveredAt(fields[i], k) }

RECURSIVE TotalLength(_, _)
TotalLength(fields, i) ==
    IF i > Len(fields) THEN PZero
    ELSE FAdd(length_manhattan(fields[i]), TotalLength(fields, i + 1))

\* C27: visibility never grows: across any block_view call (with or without
\* eviction) the set of points covered by tracked_fields after the call is a subset of
\* the set covered before it, and the sum of the tracked fields' Manhattan lengths
\* does not increase; consequently once partially_blocked() is true it stays true.
C27_VisibilityNeverGrows ==
    [][/\ Cover(tracked_fields') \subseteq Cover(tracked_fields)
       /\ ~FGt(TotalLength(tracked_fields', 1), TotalLength(tracked_fields, 1))
       /\ partially_blocked(tracked_fields, original_distance) =>
              partially_blocked(tracked_fields', original_distance)]_vars

\* a call that evicted has returned: visibility shrank by the obstacle and by the
\* piece given up
C27_ShrunkByEviction ==
    /\ call.op = "block_view"
    /\ Len(call.pieces) > SZ
    /\ Len(tracked_fields) = SZ
    /\ Cover(tracked_fields) # {}
    /\ Cover(tracked_fields) # Cover(<<Window>>)
    /\ partially_blocked(tracked_fields, original_distance)

\* C29: applying the same obstacle a second time immediately after the first changes
\* nothing: the second block_view leaves tracked_fields exactly as the first left it
\* (fields that merely touch the obstacle's projection at an endpoint are neither
\* shortened, split nor removed) and returns the same Ok/Err result.
C29_SecondCallChangesNothing ==
    [][(call.op = "block_view" /\ call'.other = call.other) =>
          /\ tracked_fields' = tracked_fields
          /\ call'.result = call.result]_vars

\* the obstacle just applied cut the fields, and a field left touches its projection
\* at an end point
C29_FieldTouchesObstacle ==
    /\ call.op = "block_view"
    /\ call.before > 0
    /\ ~NoVertexInSurface(call.other)
    /\ call.result = "Ok"
    /\ \E i \in 1..Len(tracked_fields) :
           \/ PEq(later(tracked_fields[i]),
                  earlier(project_onto_plane(call.other, target_plane)))
           \/ PEq(earlier(tracked_fields[i]),
                  later(project_onto_plane(call.other, target_plane)))

\* the k-th pieces (k = 1: first, k = 2: second) that subtract returns for the fields
\* from index i on, against the segment proj, in the order of the fields
RECURSIVE PiecesOf(_, _, _, _)
PiecesOf(fields, proj, k, i) ==
    IF i > Len(fields) THEN <<>>
    ELSE subtract(fields[i], proj)[k] \o PiecesOf(fields, proj, k, i + 1)

\* the samples inside a piece (not end points) covered by some field
CoverInside(fields) == { k \in Cover(fields) : k % 2 = 1 }

\* the pieces of a pass over the fields before: those that subtract returns for each
\* field, taken once, the first pieces in front; and, when they fit, the fields after
\* are these pieces and cover what the fields before cover outside proj
SubtractedOnce(before, after, pieces, proj) ==
    /\ pieces = PiecesOf(before, proj, 1, 1) \o PiecesOf(before, proj, 2, 1)
    /\ Len(pieces) <= SZ =>
           /\ after = pieces
           /\ CoverInside(after) = CoverInside(before) \ CoverInside(<<proj>>)

\* the last call was made on a visible tracker with an obstacle that has a vertex in
\* the surface
RelevantCall ==
    /\ call.op = "block_view"
    /\ ~totally_blocked(call.fields)
    /\ ~NoVertexInSurface(call.other)

\* C25: in LineOfSight::block_view with a relevant obstacle, every field tracked at
\* the start of the pass is subtracted against the obstacle's projection exactly once
\* (no field is skipped or processed twice when earlier fields are removed); hence,
\* when capacity is not exhausted, the union of tracked fields after the call equals
\* the union before the call minus the obstacle's projected segment (compared inside
\* the pieces, end points left aside).
C25_EachFieldSubtractedOnce ==
    RelevantCall =>
        SubtractedOnce(call.fields, tracked_fields, call.pieces,
                       project_onto_plane(call.other, target_plane))

\* a pass over two fields has removed the first, which the obstacle covered, and gone
\* on with the second, which took its place
RemovedFirstOfTwo(fields, proj) ==
    /\ Len(fields) = 2
    /\ subtract(fields[1], proj)[1] = None
    /\ tracked_fields = subtract(fields[2], proj)[1] \o subtract(fields[2], proj)[2]
    /\ tracked_fields # <<>>

C25_FirstRemovedSecondKept ==
    /\ RelevantCall
    /\ RemovedFirstOfTwo(call.fields, project_onto_plane(call.other, target_plane))

\* a pass of block_view over fields
AfterOne(fields, other) == block_view(fields, target_plane, surface, other)

\* no pass of the two produced more pieces than there are slots
WithinCapacity(one, both) == Len(one.pieces) <= SZ /\ Len(both.pieces) <= SZ

\* the same points are covered (at once so when the fields are the same), and the
\* same answer is given by totally_blocked
SameVisibility(a, b) ==
    /\ a = b \/ Cover(a) = Cover(b)
    /\ totally_blocked(a) <=> totally_blocked(b)

\* the last call applied call.other to call.fields and left tracked_fields; first is
\* the pass of another obstacle X over call.fields, both is the pass of call.other
\* after it, and next the pass of X over tracked_fields
Commutes(first, both, next) ==
    (WithinCapacity(first, both) /\ WithinCapacity(next, next) /\ Len(call.pieces) <= SZ)
        => SameVisibility(both.fields, next.fields)

CommutesWith(X, first) ==
    Commutes(first, AfterOne(first.fields, call.other), AfterOne(tracked_fields, X))

\* C28: when capacity is never exhausted, applying two obstacles X then Y to a tracker
\* leaves the same set of visible points (union of tracked fields) and the same
\* totally_blocked() value as applying Y then X, although the order of tracked_fields
\* may differ.
C28_OrderOfObstaclesIrrelevant ==
    (call.op = "block_view" /\ ~panicked) =>
        \A X \in Obstacles : CommutesWith(X, AfterOne(call.fields, X))

\* each of the two obstacles cuts the fields the other leaves, the one does not leave
\* what the other leaves, no pass exhausts the capacity, and two fields stay visible
BothCut(first, both, next) ==
    /\ WithinCapacity(first, both)
    /\ WithinCapacity(next, next)
    /\ first.fields # call.fields
    /\ first.fields # tracked_fields
    /\ both.fields # first.fields
    /\ next.fields # tracked_fields
    /\ Len(next.fields) = 2

BothCutWith(X, first) ==
    BothCut(first, AfterOne(first.fields, call.other), AfterOne(tracked_fields, X))

C28_BothObstaclesCut ==
    /\ call.op = "block_view"
    /\ ~panicked
    /\ Len(call.pieces) <= SZ
    /\ tracked_fields # call.fields
    /\ \E X \in Obstacles : BothCutWith(X, AfterOne(call.fields, X))

====
